---- MODULE Spec2Model ----
(***************************************************************************)
(* xng: ground-station receiver supervisor (HFDL / VDL2).                  *)
(*                                                                         *)
(* The module holds these specifications over one set of variables:        *)
(*   SpecPatch  the HTTP control plane (settings store, validators)        *)
(*   SpecSpdu   HfdlModule::process_message and the ground-station registry *)
(*   SpecBand   HfdlModule::start_session (band selection)                 *)
(*   Spec       ModuleManager::start: the orchestrator and its sessions    *)
(*   SpecFanout the processor task, the swarm stream and the ES batcher    *)
(*   SpecFreqBands  freq_bands_by_sample_rate on its own                   *)
(*   SpecSchedule   parse_session_schedule on its own                      *)
(*   SpecAoa    the orchestrator driving the AoA module                    *)
(*   SpecSelect start_session over small pools, with the failed-start wait *)
(*   SpecReload PATCHes of the timers and the reload arm                   *)
(*   SpecSched  sessions with a scheduled end and the clock passing it     *)
(*   SpecUpdate sessions restarted by the SPDU feedback (SessionUpdate)    *)
(*   FairSelect, FairSched  SpecSelect, SpecSched with the fairness of timers *)
(*   FairSpec   SpecFanout with the fairness the tokio runtime gives       *)
(*   SpecPartial  decoder lines that arrive in two parts                   *)
(*   SpecSignal   DELETE /api/session at every position of the orchestrator *)
(*   SpecOverride, FairOverride  PATCHes of next_session_band              *)
(*   SpecLock, FairLock  the tasks with the places where one waits for     *)
(*              another (full channels, the settings lock, the batch mutex) *)
(***************************************************************************)
EXTENDS Integers, Sequences, FiniteSets, TLC

VARIABLES
    \* ---- ModuleSettings (src/modules/settings.rs)
    props,               \* props: HashMap<String, Value>
    validators,          \* validators: HashMap<String, ValidatorCallback>
    stations,            \* stations: Vec<GroundStation>
    api_token,           \* Option<String>; "" is None
    disable_api_control,
    reload_signal,       \* unbounded channel of (): number of queued notifications
    end_session_signal,  \* unbounded channel of EndSessionReason
    change_event_rx,     \* bounded channel of GroundStationChangeEvent
    \* ---- HTTP task and its last exchange
    http_pc,
    http_req,
    http_resp,
    \* ---- HfdlModule fields
    schedule,            \* self.schedule: the schedule text (tokens)
    last_req_session_band,
    last_random_freq_band,
    \* ---- wall clock, in seconds
    now,
    \* ---- ModuleManager::start, the orchestrator
    pc,                  \* Starting, Running, BackoffWait, Intermission, Joining, Done, Panicked,
                         \* SendEvent, SendFrame (Running, waiting in a send)
    should_run,
    reason,
    session,             \* the Box<dyn Session> held by the loop
    alive,               \* decoder child processes that are running
    spawned,             \* number of children spawned so far
    session_timeout_secs,
    session_intermission_secs,
    interrupt_signal,    \* a SIGINT is pending on the Signal stream
    cancel_token,
    lines_read,          \* number of decoder lines read so far
    cff_rx,              \* bounded channel of CommonFrame
    \* ---- processor task
    swarm_url,
    es_url,
    proc_pc,             \* connect, loop, lock_batch, await_batcher, done
    swarm_stream,        \* none, up, broken (the peer has closed it)
    frames_batch,
    batcher,             \* none, sleeping, indexing (it holds the batch), finished, panicked
    dequeued,            \* frames taken from cff_rx, in order
    swarm_out,           \* frames written to the swarm stream
    db_out,              \* frames passed to StateDB::update
    es_out,              \* frames passed to bulk_index
    \* ---- history
    last_pm,             \* the last process_message call and what it did; after_signal
                         \* counts the lines this session read with a signal queued
    last_start,          \* the last start_session call and what it did
    interrupted,         \* where the orchestrator was when the first SIGINT arrived; "" if none
    start_after_interrupt,
    last_write,          \* what write_all did with the last frame dequeued in swarm mode
    last_end,            \* the last exit from the session loop: its cause and its reason
    expired,             \* read deadlines that expired in this session and were restarted
    \* ---- freq_bands_by_sample_rate: its arguments and its result
    fb_freqs,
    fb_sample_rate,
    fb_bands,
    \* ---- parse_session_schedule: its argument, Local::now() and its result
    ps_value,
    ps_now,
    ps_schedule,
    \* ---- the orchestrator waiting in Sender::send on a full bounded channel
    tx_pending,          \* what process_message and the loop have still to send
    \* ---- BufReader::read_line polled by the select! of the session loop
    read_buf,            \* the line whose first bytes a pending read_line has taken
    signal_sent          \* history: for every DELETE /api/session that sent a signal,
                         \* the orchestrator's position and its sessions so far

settingsVars == <<props, validators, stations, api_token, disable_api_control,
                  reload_signal, end_session_signal, change_event_rx>>
httpVars     == <<http_pc, http_req, http_resp>>
moduleVars   == <<schedule, last_req_session_band, last_random_freq_band>>
orchVars     == <<pc, should_run, reason, session, alive, spawned,
                  session_timeout_secs, session_intermission_secs,
                  interrupt_signal, cancel_token, lines_read, cff_rx>>
procVars     == <<swarm_url, es_url, proc_pc, swarm_stream, frames_batch, batcher,
                  dequeued, swarm_out, db_out, es_out>>
histVars     == <<last_pm, last_start, interrupted, start_after_interrupt, last_write,
                  last_end, expired>>
\* variables that only the specification made for them changes
bandVars     == <<fb_freqs, fb_sample_rate, fb_bands, ps_value, ps_now, ps_schedule,
                  tx_pending, read_buf, signal_sent>>

vars == <<settingsVars, httpVars, moduleVars, now, orchVars, procVars, histVars, bandVars>>

----------------------------------------------------------------------------
(* serde_json::Value.  One record shape for every kind, so that values of  *)
(* different kinds can be compared.  A String is either a plain word (s)   *)
(* or a ';'-separated list of schedule tokens (t).                         *)

JNull      == [k |-> "Null",   b |-> FALSE, n |-> 0, s |-> "", a |-> <<>>, t |-> <<>>]
JBool(x)   == [k |-> "Bool",   b |-> x,     n |-> 0, s |-> "", a |-> <<>>, t |-> <<>>]
JNum(x)    == [k |-> "Number", b |-> FALSE, n |-> x, s |-> "", a |-> <<>>, t |-> <<>>]
JStr(x)    == [k |-> "String", b |-> FALSE, n |-> 0, s |-> x,  a |-> <<>>, t |-> <<>>]
JSched(x)  == [k |-> "String", b |-> FALSE, n |-> 0, s |-> "", a |-> <<>>, t |-> x]
JArr(x)    == [k |-> "Array",  b |-> FALSE, n |-> 0, s |-> "", a |-> x,    t |-> <<>>]

\* Value::as_u64: Some for a non-negative integer Number, None otherwise
\* (a negative Number stands for every Number that is not a u64).
IsU64(v)   == v.k = "Number" /\ v.n >= 0
as_u64_or_zero(v, default) == IF IsU64(v) THEN v.n ELSE 0
as_u64(v, default) == IF IsU64(v) THEN v.n ELSE default
as_bool(v, default) == IF v.k = "Bool" THEN v.b ELSE default

PROP_SESSION_TIMEOUT_SEC      == "session_timeout_sec"
PROP_SESSION_INTERMISSION_SEC == "session_intermission_sec"
PROP_LISTENING_BAND           == "listening_band"
PROP_STALE_TIMEOUT_SEC        == "stale_timeout_sec"
PROP_USE_AIRFRAMES_GS         == "use_airframes_gs"
PROP_SAMPLE_RATE              == "sample_rate"
PROP_NEXT_SESSION_BAND        == "next_session_band"
PROP_SESSION_SCHEDULE         == "session_schedule"
PROP_SESSION_METHOD           == "session_method"
PROP_ONLY_USE_ACTIVE          == "only_use_active"

DEFAULT_SESSION_TIMEOUT_SECS      == 600
DEFAULT_SESSION_INTERMISSION_SECS == 0
DEFAULT_STALE_TIMEOUT_SECS        == 2700
DEFAULT_SAMPLE_RATE               == 512000
DEFAULT_SESSION_METHOD            == "random"

Range(f) == {f[i] : i \in DOMAIN f}

----------------------------------------------------------------------------
(* Schedule text.  A token is the text between two ';'.  A token of the    *)
(* shape  <pre>time=<hh>:<mm>,band_contains=<f><post>  is the record       *)
(* [shape |-> TRUE, hh, mm, f] with hh, mm, f its digit strings (sequences *)
(* of digits); any other text is [shape |-> FALSE, ...].                   *)

Tok(hh, mm, f) == [shape |-> TRUE, hh |-> hh, mm |-> mm, f |-> f]
BadTok         == [shape |-> FALSE, hh |-> <<>>, mm |-> <<>>, f |-> <<>>]

RECURSIVE DigitsVal(_)
DigitsVal(d) == IF d = <<>> THEN 0 ELSE 10 * DigitsVal(SubSeq(d, 1, Len(d) - 1)) + d[Len(d)]

\* ([0-9]|[01][1-9]|2[0-3]) directly between "time=" and ":"
HourMatches(hh) ==
    \/ Len(hh) = 1
    \/ Len(hh) = 2 /\ hh[1] \in {0, 1} /\ hh[2] \in 1..9
    \/ Len(hh) = 2 /\ hh[1] = 2 /\ hh[2] \in 0..3

\* ([0-5][0-9]) directly between ":" and ","
MinMatches(mm) == Len(mm) = 2 /\ mm[1] \in 0..5

\* ([0-9]{4,5}) after "band_contains=": unanchored at the end, so of a longer
\* digit string the first five digits are captured
FreqCapture(f) == IF Len(f) > 5 THEN SubSeq(f, 1, 5) ELSE f

SCHEDULE_ENTRY_FMT(tok) ==
    tok.shape /\ HourMatches(tok.hh) /\ MinMatches(tok.mm) /\ Len(tok.f) >= 4

SecondsPerDay == 86400
U16Max        == 65535

\* The (instant, freq) pair of a token at local time t; instants are seconds
\* since today's midnight.
ScheduleEntry(tok, t) ==
    LET at == 3600 * DigitsVal(tok.hh) + 60 * DigitsVal(tok.mm)
    IN  <<IF at < t THEN at + SecondsPerDay ELSE at, DigitsVal(FreqCapture(tok.f))>>

TokenParses(tok) ==
    SCHEDULE_ENTRY_FMT(tok) /\ DigitsVal(FreqCapture(tok.f)) <= U16Max

EntryLess(x, y) == x[1] < y[1] \/ (x[1] = y[1] /\ x[2] < y[2])

RECURSIVE SortEntries(_)
SortEntries(S) ==
    IF S = {} THEN <<>>
    ELSE LET m == CHOOSE x \in S : \A y \in S \ {x} : EntryLess(x, y)
         IN  <<m>> \o SortEntries(S \ {m})

RECURSIVE DedupByInstant(_)
DedupByInstant(q) ==
    IF Len(q) <= 1 THEN q
    ELSE LET rest == DedupByInstant(Tail(q))
         IN  IF rest[1][1] = q[1][1] THEN <<q[1]>> \o Tail(rest) ELSE <<q[1]>> \o rest

\* parse_session_schedule: [ok, entries]; "".split(";") is the one token "".
parse_session_schedule(toks, t) ==
    IF toks = <<>> \/ \E i \in DOMAIN toks : ~TokenParses(toks[i])
    THEN [ok |-> FALSE, entries |-> <<>>]
    ELSE [ok |-> TRUE,
          entries |-> DedupByInstant(SortEntries({ScheduleEntry(toks[i], t) : i \in DOMAIN toks}))]

----------------------------------------------------------------------------
(* Validators: TRUE is Ok(()), FALSE is Err.                               *)

validate_listening_bands_accepts(v) == TRUE

validate_listening_bands(v) == FALSE

to_lowercase(s) ==
    CASE s = "RANDOM" -> "random"
      [] s = "Static" -> "static"
      [] s = "INC"    -> "inc"
      [] s = "DEC"    -> "dec"
      [] OTHER        -> s

validate_session_method(v) ==
    /\ v.k = "String"
    /\ v.t = <<>>
    /\ to_lowercase(v.s) \in {"random", "static", "inc", "dec"}

validate_next_session_band(v) ==
    /\ IsU64(v)
    /\ (v.n = 0 \/ v.n \in 2000..21997)

\* the validator runs at an arbitrary local time; a token's format does not
\* depend on it
valid_session_schedule(v) ==
    /\ v.k = "String"
    /\ v.s = ""
    /\ parse_session_schedule(v.t, 0).ok

RunValidator(name, v) ==
    CASE name = "validate_listening_bands"   -> validate_listening_bands(v)
      [] name = "validate_next_session_band" -> validate_next_session_band(v)
      [] name = "validate_session_method"    -> validate_session_method(v)
      [] name = "valid_session_schedule"     -> valid_session_schedule(v)
      [] OTHER -> TRUE

\* ModuleSettings::get_validator
get_validator_unregistered(prop) == "none"

get_validator(prop) ==
    IF prop \in DOMAIN validators THEN validators[prop] ELSE "none"

----------------------------------------------------------------------------
(* Ground-station registry (src/modules/settings.rs).                      *)
(* A GroundStation is [id, active] with active the HashSet<FreqInfo>: a    *)
(* set of [khz, last_updated] holding at most one entry per khz.           *)

Khz(active) == {x.khz : x \in active}

\* GroundStation::invalidate
invalidate_drops_all(st, stale_after, t) == [st EXCEPT !.active = {}]

invalidate(st, stale_after, t) ==
    [st EXCEPT !.active = {x \in st.active : (t - x.last_updated) < stale_after}]

NoEvent == [some |-> FALSE, id |-> 0, old |-> {}, new |-> {}]
ChangeEvent(id, old, new) == [some |-> TRUE, id |-> id, old |-> old, new |-> new]

station_position(stns, id) ==
    IF \E i \in DOMAIN stns : stns[i].id = id
    THEN CHOOSE i \in DOMAIN stns : stns[i].id = id /\ \A j \in 1..(i - 1) : stns[j].id # id
    ELSE 0

\* update_station_by_frequencies: [stations, event]
update_station_by_frequencies(stns, stale_timeout_secs, station_id, freqs, t) ==
    LET idx0    == station_position(stns, station_id)
        pushed  == IF idx0 = 0
                   THEN Append(stns, [id |-> station_id, active |-> {}])
                   ELSE stns
        idx     == IF idx0 = 0 THEN Len(pushed) ELSE idx0
        station == invalidate(pushed[idx], stale_timeout_secs, t)
        new_set == {[khz |-> f, last_updated |-> t] : f \in freqs}
        changed == Khz(station.active) # Khz(new_set)
    IN  [stations |-> [pushed EXCEPT ![idx] = [station EXCEPT !.active = new_set]],
         event    |-> IF changed
                      THEN ChangeEvent(station_id, Khz(station.active), freqs)
                      ELSE NoEvent]

----------------------------------------------------------------------------
(* HFDL band utilities (src/modules/hfdl/utils.rs).                        *)

\* (((sample_rate as f64) * 0.9) / 1000.0) as u32
get_max_dist_khz_by_sample_rate(sample_rate) == (sample_rate * 9) \div 10000

first_freq_above_eq(freqs, target_freq) ==
    IF \E i \in DOMAIN freqs : freqs[i] >= target_freq
    THEN freqs[CHOOSE i \in DOMAIN freqs :
                 freqs[i] >= target_freq /\ \A j \in 1..(i - 1) : freqs[j] < target_freq]
    ELSE 0

MaxU16 == 65536

RECURSIVE SortSet(_)
SortSet(S) ==
    IF S = {} THEN <<>>
    ELSE LET m == CHOOSE x \in S : \A y \in S : x <= y
         IN  <<m>> \o SortSet(S \ {m})

band_name_first(band) == <<band[1]>>

\* the closure band_name: the label as its one or two numbers
band_name(band) ==
    LET first == band[1]
        last  == band[Len(band)]
    IN  IF first = 0 THEN <<last>>
        ELSE IF last = 0 \/ first = last THEN <<first>>
        ELSE <<first, last>>

\* the loop of freq_bands_by_sample_rate over the frequencies still to place,
\* with the band being filled; the result is the set of [label, band]
RECURSIVE freq_bands_loop_last(_, _, _)
freq_bands_loop_last(freqs, band, max_dist_khz) ==
    IF freqs = <<>>
    THEN IF band = <<>> THEN {} ELSE {[label |-> band_name(band), band |-> band]}
    ELSE IF band # <<>> /\ freqs[1] - band[Len(band)] > max_dist_khz
         THEN {[label |-> band_name(band), band |-> band]}
                \cup freq_bands_loop_last(Tail(freqs), <<freqs[1]>>, max_dist_khz)
         ELSE freq_bands_loop_last(Tail(freqs), Append(band, freqs[1]), max_dist_khz)

RECURSIVE freq_bands_loop(_, _, _)
freq_bands_loop(freqs, band, max_dist_khz) ==
    IF freqs = <<>>
    THEN IF band = <<>> THEN {} ELSE {[label |-> band_name(band), band |-> band]}
    ELSE IF band # <<>> /\ freqs[1] - band[1] > max_dist_khz
         THEN {[label |-> band_name(band), band |-> band]}
                \cup freq_bands_loop(Tail(freqs), <<freqs[1]>>, max_dist_khz)
         ELSE freq_bands_loop(Tail(freqs), Append(band, freqs[1]), max_dist_khz)

freq_bands_by_sample_rate(freqs, sample_rate) ==
    freq_bands_loop(freqs, <<>>, get_max_dist_khz_by_sample_rate(sample_rate) % MaxU16)

----------------------------------------------------------------------------
(* HfdlModule::process_message (src/modules/hfdl/mod.rs).                  *)
(* A decoder line is                                                       *)
(*   [kind    "spdu", "lpdu", "nopdu" (neither block) or "badjson",        *)
(*    ts_ok   the arrival time (sec, usec) is representable,               *)
(*    ver     spdu.systable_version,                                       *)
(*    gs      spdu.gs_status: a sequence of [id, freqs],                   *)
(*    time_ok the HFNPDU time of an lpdu has a nearest instant in the past]*)

SystableVersion == 51

Line(kind, ts_ok, ver, gs, time_ok) ==
    [kind |-> kind, ts_ok |-> ts_ok, ver |-> ver, gs |-> gs, time_ok |-> time_ok]

\* serde_json::from_str::<Vec<u16>> of a change event's old and new lists
ParsesAsU16List(S) == \A f \in S : f \in 0..U16Max

SymDiff(A, B) == (A \ B) \cup (B \ A)

\* the closure handed to added_or_removed.iter().any(..)
near_current_band(x, current_band, max_dist_khz) ==
    IF current_band = <<>> THEN TRUE
    ELSE LET first_freq == current_band[1]
             last_freq  == current_band[Len(current_band)]
         IN  \/ (x >= first_freq /\ x <= last_freq)
             \/ (x < first_freq /\ (last_freq - x) <= max_dist_khz)
             \/ (x > last_freq /\ (x - last_freq) <= max_dist_khz)

event_changes_band(ev, current_band, max_dist_khz) ==
    IF ParsesAsU16List(ev.old) /\ ParsesAsU16List(ev.new)
    THEN \E x \in SymDiff(ev.old, ev.new) : near_current_band(x, current_band, max_dist_khz)
    ELSE TRUE

\* the loop over spdu.gs_status: [stations, events, changed]
RECURSIVE spdu_stations(_, _, _, _, _, _)
spdu_stations(gs, stns, stale, current_band, max_dist_khz, t) ==
    IF gs = <<>> THEN [stations |-> stns, events |-> <<>>, changed |-> FALSE]
    ELSE LET u    == update_station_by_frequencies(stns, stale, gs[1].id, gs[1].freqs, t)
             rest == spdu_stations(Tail(gs), u.stations, stale, current_band, max_dist_khz, t)
         IN  IF u.event.some
             THEN [stations |-> rest.stations,
                   events   |-> <<u.event>> \o rest.events,
                   changed  |-> rest.changed
                                  \/ event_changes_band(u.event, current_band, max_dist_khz)]
             ELSE rest

PmResult(result, stns, events, signal) ==
    [result |-> result, stations |-> stns, events |-> events, signal |-> signal]

\* the version check of process_message
systable_out_of_date_ignored(line) == FALSE

systable_out_of_date_older(line) == line.ver < SystableVersion

systable_out_of_date(line) == line.ver > SystableVersion

\* [result, stations, events, signal]: result "Ok" carries a CommonFrame
process_message(line, current_band) ==
    IF line.kind = "badjson" THEN PmResult("BadJSON", stations, <<>>, FALSE)
    ELSE IF ~line.ts_ok THEN PmResult("InvalidArrivalTime", stations, <<>>, FALSE)
    ELSE IF line.kind = "spdu" THEN
        IF systable_out_of_date(line)
        THEN PmResult("SystemTableOutOfDate", stations, <<>>, FALSE)
        ELSE IF ~IsU64(props[PROP_STALE_TIMEOUT_SEC])
        THEN PmResult("StaleTimeoutNotANumber", stations, <<>>, FALSE)
        ELSE LET use_airframes_gs == as_bool(props[PROP_USE_AIRFRAMES_GS], FALSE)
                 only_use_active  == as_bool(props[PROP_ONLY_USE_ACTIVE], FALSE)
                 sample_rate      == as_u64(props[PROP_SAMPLE_RATE], 0)
                 r == spdu_stations(line.gs, stations, props[PROP_STALE_TIMEOUT_SEC].n,
                                    current_band,
                                    get_max_dist_khz_by_sample_rate(sample_rate), now)
             IN  PmResult("Ok", r.stations, r.events,
                          (only_use_active \/ use_airframes_gs) /\ r.changed)
    ELSE IF line.kind = "lpdu" THEN
        IF ~line.time_ok THEN PmResult("FrameTimeError", stations, <<>>, FALSE)
        ELSE PmResult("Ok", stations, <<>>, FALSE)
    ELSE PmResult("MissingPDU", stations, <<>>, FALSE)

----------------------------------------------------------------------------
(* HfdlModule::start_session (src/modules/hfdl/mod.rs).                    *)

\* the loaded system table: the frequency lists of its stations, in file order
SystableFreqs == <<8921, 6529, 6532, 2998, 10027, 10081>>
\* the rates the SDR device supports (load_sample_rates: sorted, deduplicated)
SampleRates   == <<250000, 512000>>

\* HfdlModule::nearest_sample_rate; 0 is None
nearest_sample_rate(sample_rate) == first_freq_above_eq(SampleRates, sample_rate)

\* HfdlModule::calculate_actual_sample_rate; 0 is None
calculate_actual_sample_rate(bands) ==
    IF bands = <<>> THEN 0
    ELSE LET sorted == SortSet(Range(bands))
         IN  nearest_sample_rate((((sorted[Len(sorted)] - sorted[1]) * 12) \div 10) * 1000)

\* the entries of a JSON array that are u64 (listening_band holds only such)
array_u64s(v) == v.a

position_ge(q, x) ==
    IF \E i \in DOMAIN q : q[i] >= x
    THEN CHOOSE i \in DOMAIN q : q[i] >= x /\ \A j \in 1..(i - 1) : q[j] < x
    ELSE 0

\* only_use_active: every station is invalidated and its frequencies collected
invalidate_all(stns, stale, t) == [i \in DOMAIN stns |-> invalidate(stns[i], stale, t)]

\* the loop over the airframes.io stations: [stations, events]
RECURSIVE airframes_stations(_, _, _, _)
airframes_stations(gs, stns, stale, t) ==
    IF gs = <<>> THEN [stations |-> stns, events |-> <<>>]
    ELSE LET u    == update_station_by_frequencies(stns, stale, gs[1].id, gs[1].freqs, t)
             rest == airframes_stations(Tail(gs), u.stations, stale, t)
         IN  [stations |-> rest.stations,
              events   |-> IF u.event.some THEN <<u.event>> \o rest.events ELSE rest.events]

\* the schedule arm: which target the match (last_end_reason, next_session_band) gives
schedule_target(last_end_reason, next_session_band, target_freq) ==
    IF last_end_reason = "SessionTimeout" /\ next_session_band = 0 THEN next_session_band
    ELSE IF next_session_band = 0 \/ last_end_reason = "SessionEnd" THEN target_freq
    ELSE next_session_band

rotate_no_wrap(session_method, candidates, last_idx, next_session_band) ==
    LET max_idx == Len(candidates)
    IN  CASE session_method = "inc" ->
               IF last_idx + 1 > max_idx THEN candidates[max_idx] ELSE candidates[last_idx + 1]
          [] session_method = "dec" ->
               IF last_idx = 1 THEN candidates[1] ELSE candidates[last_idx - 1]
          [] OTHER -> next_session_band

\* "inc" and "dec" over the sorted band heads; last_idx is 1-based
rotate(session_method, candidates, last_idx, next_session_band) ==
    LET max_idx == Len(candidates)
    IN  CASE session_method = "inc" ->
               IF last_idx + 1 > max_idx THEN candidates[1] ELSE candidates[last_idx + 1]
          [] session_method = "dec" ->
               IF last_idx = 1 THEN candidates[max_idx] ELSE candidates[last_idx - 1]
          [] OTHER -> next_session_band

StartResult(status, err, bands, requested, all_freqs, rate, stns, events, random_band, req_band, begin, on_timeout) ==
    [status |-> status, err |-> err, bands |-> bands, requested |-> requested,
     all_freqs |-> all_freqs, rate |-> rate, stations |-> stns, events |-> events,
     last_random_freq_band |-> random_band, last_req_session_band |-> req_band,
     next_session_begin |-> begin, end_session_on_timeout |-> on_timeout]

\* an Err returned before the registry is touched
StartFailed(err) ==
    StartResult("err", err, <<>>, 0, <<>>, 0, stations, <<>>, last_random_freq_band,
                last_req_session_band, -1, FALSE)

\* start_session is translated in the order of its statements; each part below
\* takes what the statements before it have computed.  c is the call:
\*   [reason, rnd, af, spawn_ok, method, rate, stale, active, airframes]

\* the lookup of the band holding the target frequency, the spawn of the decoder
\* and the bookkeeping after it
start_spawn(c, begin, afr, all_freqs, bands_for_rate, random_band, nsb, panics) ==
    LET target_freq == first_freq_above_eq(all_freqs, nsb % MaxU16)
        found       == {b \in bands_for_rate : \E i \in DOMAIN b.band : b.band[i] = target_freq}
        bands       == IF found = {} THEN <<>> ELSE (CHOOSE b \in found : TRUE).band
        actual      == calculate_actual_sample_rate(bands)
        R(status, err, bnds, lr) ==
            StartResult(status, err, bnds, nsb, all_freqs,
                        IF actual = 0 THEN c.rate ELSE actual,
                        afr.stations, afr.events, random_band, lr, begin,
                        c.method # "static")
    IN  IF panics
        THEN R("panic", "", <<>>, last_req_session_band)
        ELSE IF ~\E i \in DOMAIN all_freqs : all_freqs[i] >= nsb % MaxU16
        THEN R("err", "NoBand", <<>>, last_req_session_band)
        ELSE IF found = {}
        THEN R("err", "NoBandForTarget", <<>>, last_req_session_band)
        ELSE IF ~c.spawn_ok
        THEN R("err", "SpawnFailed", <<>>, nsb)
        ELSE R("ok", "", bands, nsb)

\* the "track:<gs_id>" method
start_track(c, begin, afr, all_freqs, bands_for_rate, last_band, random_band, nsb2, nsb4, draws_random, random_range) ==
    LET listening_band == props[PROP_LISTENING_BAND]
        is_track     == /\ nsb2 = 0 /\ nsb4 = 0
                        /\ listening_band.k = "Array"
                        /\ c.method \in {"track:1", "track:2"}
        gs_id        == IF c.method = "track:1" THEN 1 ELSE 2
        tracked      == station_position(afr.stations, gs_id)
        draws_track  == is_track /\ tracked # 0
        track_len    == IF draws_track THEN Cardinality(afr.stations[tracked].active) ELSE 0
        track_pool   == IF draws_track
                        THEN SortSet(Khz(afr.stations[tracked].active) \ Range(last_band))
                        ELSE <<>>
        track_panics == draws_track /\ (track_len <= 1 \/ c.rnd + 1 > Len(track_pool))
        nsb5         == IF draws_track /\ ~track_panics THEN track_pool[c.rnd + 1] ELSE nsb4
        \* gen_range(0..n) panics on an empty range
        range        == IF draws_random THEN random_range
                        ELSE IF draws_track THEN track_len - 1
                        ELSE 1
        panics       == (draws_random /\ range <= 0) \/ track_panics
    IN  IF c.rnd >= (IF range <= 0 THEN 1 ELSE range)
        THEN StartResult("norun", "", <<>>, 0, <<>>, 0, stations, <<>>,
                         last_random_freq_band, last_req_session_band, -1, FALSE)
        ELSE start_spawn(c, begin, afr, all_freqs, bands_for_rate, random_band, nsb5, panics)

\* the "random" method
start_random(c, begin, afr, all_freqs, bands_for_rate, candidates, last_band, has_last, nsb2, nsb3) ==
    LET first_freq   == IF has_last THEN last_band[1] ELSE 0
        is_random    == nsb2 = 0 /\ nsb3 = 0 /\ c.method = "random"
        NotLast(x)   == x # first_freq /\ x # last_random_freq_band
        pool_random  == IF has_last THEN SelectSeq(candidates, NotLast) ELSE candidates
        random_band  == IF is_random /\ has_last THEN first_freq
                        ELSE last_random_freq_band
        draws_random == is_random /\ pool_random # <<>>
        nsb4         == IF draws_random /\ c.rnd < Len(pool_random) - 1
                        THEN pool_random[c.rnd + 1] ELSE nsb3
    IN  start_track(c, begin, afr, all_freqs, bands_for_rate, last_band, random_band,
                    nsb2, nsb4, draws_random, Len(pool_random) - 1)

\* the "inc" and "dec" methods over the heads of the bands
start_policy(c, begin, afr, all_freqs, bands_for_rate, candidates, nsb2) ==
    LET listening_band == props[PROP_LISTENING_BAND]
        last_band  == IF listening_band.k = "Array" THEN array_u64s(listening_band)
                      ELSE <<>>
        has_last   == /\ candidates # <<>>
                      /\ listening_band.k = "Array"
                      /\ c.method # "static"
                      /\ last_band # <<>>
        last_idx   == IF has_last THEN position_ge(candidates, last_band[1]) ELSE 0
        nsb3       == IF nsb2 = 0 /\ has_last /\ last_idx # 0
                      THEN rotate(c.method, candidates, last_idx, nsb2)
                      ELSE nsb2
    IN  start_random(c, begin, afr, all_freqs, bands_for_rate, candidates, last_band,
                     has_last, nsb2, nsb3)

\* the frequencies to choose from, sorted and deduplicated, and their bands
start_bands(c, begin, afr, all_freqs, nsb2) ==
    LET bands_for_rate == freq_bands_by_sample_rate(all_freqs, c.rate)
    IN  start_policy(c, begin, afr, all_freqs, bands_for_rate,
                     SortSet({b.band[1] : b \in bands_for_rate}), nsb2)

\* the active frequencies of the registry and of airframes.io
start_stations(c, begin, stns1, nsb2) ==
    LET active_freqs == IF c.active
                        THEN UNION {{x.khz % MaxU16 : x \in stns1[i].active} : i \in DOMAIN stns1}
                        ELSE {}
        fetch        == c.airframes /\ c.reason # "SessionUpdate" /\ c.af.ok
        af_freqs     == IF fetch THEN UNION {c.af.gs[i].freqs : i \in DOMAIN c.af.gs} ELSE {}
        pool         == active_freqs \cup af_freqs
    IN  start_bands(c, begin,
                    IF fetch THEN airframes_stations(c.af.gs, stns1, c.stale, now)
                    ELSE [stations |-> stns1, events |-> <<>>],
                    SortSet(IF pool = {} THEN Range(SystableFreqs) ELSE pool), nsb2)

\* the schedule
start_scheduled(c, nsb1, parsed) ==
    LET has_entry == schedule # <<>> /\ parsed.ok /\ parsed.entries # <<>>
    IN  IF schedule # <<>> /\ ~parsed.ok THEN StartFailed("BadSchedule")
        ELSE start_stations(c,
                            IF has_entry THEN parsed.entries[1][1] ELSE -1,
                            IF c.active THEN invalidate_all(stations, c.stale, now)
                            ELSE stations,
                            IF has_entry
                            THEN schedule_target(c.reason, nsb1,
                                                 parsed.entries[Len(parsed.entries)][2])
                            ELSE nsb1)

\* start_session with its outside inputs: rnd the number drawn by gen_range, af the
\* answer of get_airframes_gs_status ([ok, gs]), spawn_ok whether the decoder
\* binary could be spawned.  status is "ok", "err", "panic", or "norun" when rnd is
\* no number gen_range can draw here.
start_session(last_end_reason, rnd, af, spawn_ok) ==
    LET mprop       == props[PROP_SESSION_METHOD]
        sample_rate == nearest_sample_rate(as_u64(props[PROP_SAMPLE_RATE], 0))
        stale       == props[PROP_STALE_TIMEOUT_SEC]
        nsb0        == as_u64(props[PROP_NEXT_SESSION_BAND], 0)
    IN  IF sample_rate = 0 THEN StartFailed("NoRate")
        ELSE IF ~IsU64(stale) THEN StartFailed("StaleTimeoutNotANumber")
        ELSE start_scheduled(
                 [reason    |-> last_end_reason, rnd |-> rnd, af |-> af,
                  spawn_ok  |-> spawn_ok,
                  method    |-> IF mprop.k = "String" /\ mprop.t = <<>>
                                THEN mprop.s ELSE DEFAULT_SESSION_METHOD,
                  rate      |-> sample_rate,
                  stale     |-> stale.n,
                  active    |-> as_bool(props[PROP_ONLY_USE_ACTIVE], FALSE),
                  airframes |-> as_bool(props[PROP_USE_AIRFRAMES_GS], FALSE)],
                 IF nsb0 = 0 /\ last_end_reason = "SessionUpdate"
                 THEN last_req_session_band ELSE nsb0,
                 parse_session_schedule(schedule, now % SecondsPerDay))

----------------------------------------------------------------------------
(* HTTP control plane.                                                     *)

MaxSignals == 1

NoReq  == [method |-> "none", header |-> "", prop |-> "", value |-> JNull]
Req(method, header, prop, value) ==
    [method |-> method, header |-> header, prop |-> prop, value |-> value]
\* status 0: no response yet; body: whether the response carries the settings
Resp(status, ok, body) == [status |-> status, ok |-> ok, body |-> body]

\* Authorized::from_request: 200 stands for Ok(Authorized); "" is a missing header
Authorized(method, header) ==
    IF method \in {"POST", "PATCH"} /\ disable_api_control THEN 417
    ELSE IF api_token = "" THEN 200
    ELSE IF header = "" THEN 511
    ELSE IF header = api_token THEN 200
    ELSE 401

types_match_any(old, new) == TRUE

types_match(old, new) ==
    /\ old.k = new.k
    /\ old.k \in {"Bool", "Number", "String", "Array"}

\* PATCH /api/settings/: the status of the response
patch_status(header, prop, value) ==
    LET auth == Authorized("PATCH", header)
        vcb  == get_validator(prop)
    IN  IF auth # 200 THEN auth
        ELSE IF vcb # "none" /\ ~RunValidator(vcb, value) THEN 400
        ELSE IF prop \notin DOMAIN props THEN 400
        ELSE IF ~types_match(props[prop], value) THEN 400
        ELSE 200

\* PATCH /api/settings/
patch(header, prop, value) ==
    LET status == patch_status(header, prop, value)
    IN
    /\ http_pc = "running"
    /\ status = 200 => reload_signal < MaxSignals
    /\ http_req' = Req("PATCH", header, prop, value)
    /\ http_resp' = Resp(status, status = 200, FALSE)
    /\ IF status = 200
       THEN /\ props' = [props EXCEPT ![prop] = value]
            /\ reload_signal' = reload_signal + 1
       ELSE UNCHANGED <<props, reload_signal>>
    /\ UNCHANGED <<validators, stations, api_token, disable_api_control,
                   end_session_signal, change_event_rx>>
    /\ UNCHANGED <<http_pc, moduleVars, now, orchVars, procVars, histVars, bandVars>>

\* GET /api/settings/ (the handler takes no Authorized extractor)
get(header) ==
    /\ http_pc = "running"
    /\ http_req' = Req("GET", header, "", JNull)
    /\ http_resp' = Resp(200, TRUE, TRUE)
    /\ UNCHANGED <<settingsVars, http_pc, moduleVars, now, orchVars, procVars, histVars, bandVars>>

\* DELETE /api/session
delete(header) ==
    LET auth == Authorized("DELETE", header)
    IN
    /\ http_pc = "running"
    /\ auth = 200 => Len(end_session_signal) < MaxSignals
    /\ http_req' = Req("DELETE", header, "", JNull)
    /\ IF auth # 200
       THEN /\ http_resp' = Resp(auth, FALSE, FALSE)
            /\ UNCHANGED end_session_signal
       ELSE /\ end_session_signal' = Append(end_session_signal, "UserAPIControl")
            /\ http_resp' = Resp(200, TRUE, FALSE)
    /\ UNCHANGED <<props, validators, stations, api_token, disable_api_control,
                   reload_signal, change_event_rx>>
    /\ UNCHANGED <<http_pc, moduleVars, now, orchVars, procVars, histVars, bandVars>>

\* ModuleSettings::new, HfdlModule::init and the listening_band registration in
\* ModuleManager::start, for the given command line.
InitProps(next_band, sched, method, active, airframes) ==
    [p \in {PROP_SESSION_TIMEOUT_SEC, PROP_SESSION_INTERMISSION_SEC,
            PROP_LISTENING_BAND, PROP_STALE_TIMEOUT_SEC, PROP_USE_AIRFRAMES_GS,
            PROP_SAMPLE_RATE, PROP_NEXT_SESSION_BAND, PROP_SESSION_SCHEDULE,
            PROP_SESSION_METHOD, PROP_ONLY_USE_ACTIVE} |->
        CASE p = PROP_SESSION_TIMEOUT_SEC      -> JNum(DEFAULT_SESSION_TIMEOUT_SECS)
          [] p = PROP_SESSION_INTERMISSION_SEC -> JNum(DEFAULT_SESSION_INTERMISSION_SECS)
          [] p = PROP_LISTENING_BAND           -> JArr(<<>>)
          [] p = PROP_STALE_TIMEOUT_SEC        -> JNum(DEFAULT_STALE_TIMEOUT_SECS)
          [] p = PROP_USE_AIRFRAMES_GS         -> JBool(airframes)
          [] p = PROP_SAMPLE_RATE              -> JNum(DEFAULT_SAMPLE_RATE)
          [] p = PROP_NEXT_SESSION_BAND        -> JNum(next_band)
          [] p = PROP_SESSION_SCHEDULE         -> sched
          [] p = PROP_SESSION_METHOD           -> JStr(method)
          [] p = PROP_ONLY_USE_ACTIVE          -> JBool(active)]

\* ModuleSettings::add_prop_with_validator, as called by init and start
add_prop_with_validator ==
    [p \in {PROP_LISTENING_BAND, PROP_NEXT_SESSION_BAND, PROP_SESSION_SCHEDULE,
            PROP_SESSION_METHOD} |->
        CASE p = PROP_LISTENING_BAND    -> "validate_listening_bands"
          [] p = PROP_NEXT_SESSION_BAND -> "validate_next_session_band"
          [] p = PROP_SESSION_SCHEDULE  -> "valid_session_schedule"
          [] p = PROP_SESSION_METHOD    -> "validate_session_method"]

----------------------------------------------------------------------------
(* ModuleManager::start: the orchestrator loop (src/modules/mod.rs).       *)

MaxSessions == 2
MaxLines    == 2
ChanCap     == 2
MaxTime     == 2

\* session_end: the session has a scheduled end; end_at: its instant, in seconds
\* of the wall clock (session_start + session_end), -1 if none
NoSession == [child |-> 0, band |-> <<>>, end_on_timeout |-> FALSE, session_end |-> FALSE,
              end_at |-> -1]

\* the frame made of the n-th decoder line, which child c wrote
CFF(n, c) == [seq |-> n, child |-> c]

\* mpsc::Sender::send on a bounded channel whose receiver is open or dropped
tx_send_front(q, msgs, open) == IF open THEN msgs \o q ELSE q

tx_send(q, msgs, open) == IF open THEN q \o msgs ELSE q

\* Session::end: Child::kill().await sends SIGKILL and waits for the child
session_end_detach(sess) == alive

session_end(sess) == alive \ {sess.child}

\* what the loop does after process_message returned Err: continue
malformed_frame_break == "break"

malformed_frame == "continue"

\* the end of one pass of `while should_run`, after the inner loop was left with
\* reason r and should_run sr: Session::end, then the intermission or the next pass;
\* leaving the while loop cancels the token; cause is the select arm that was taken
LeaveRunning(cause, r, sr) ==
    /\ reason' = r
    /\ last_end' = [cause |-> cause, reason |-> r, child |-> session.child, at |-> now]
    /\ should_run' = sr
    /\ alive' = session_end(session)
    /\ session' = NoSession
    /\ IF sr /\ session_intermission_secs > 0
       THEN pc' = "Intermission" /\ UNCHANGED cancel_token
       ELSE IF sr
       THEN pc' = "Starting" /\ UNCHANGED cancel_token
       ELSE pc' = "Joining" /\ cancel_token' = TRUE

proc_open == proc_pc # "done"

\* the match on the result r of module.start_session(reason)
StartSessionResult(r) ==
    /\ pc = "Starting"
    /\ spawned < MaxSessions
    /\ r.status # "norun"
    /\ Len(change_event_rx) + Len(r.events) <= ChanCap \/ ~proc_open
    /\ stations' = r.stations
    /\ change_event_rx' = tx_send(change_event_rx, r.events, proc_open)
    /\ last_random_freq_band' = r.last_random_freq_band
    /\ last_req_session_band' = r.last_req_session_band
    /\ expired' = 0
    /\ last_start' = [reason |-> reason, prop |-> props[PROP_NEXT_SESSION_BAND],
                      scheduled |-> schedule # <<>>, status |-> r.status,
                      err |-> r.err, bands |-> r.bands, requested |-> r.requested,
                      all_freqs |-> r.all_freqs,
                      method |-> props[PROP_SESSION_METHOD],
                      prev_band |-> props[PROP_LISTENING_BAND],
                      prev_random |-> last_random_freq_band,
                      prev_req |-> last_req_session_band,
                      entries |-> parse_session_schedule(schedule, now % SecondsPerDay).entries]
    /\ start_after_interrupt' =
           (start_after_interrupt \/ interrupted \in {"Running", "BackoffWait", "Intermission"})
    /\ CASE r.status = "ok" ->
              /\ spawned' = spawned + 1
              /\ alive' = alive \cup {spawned + 1}
              /\ session' = [child |-> spawned + 1, band |-> r.bands,
                             end_on_timeout |-> r.end_session_on_timeout,
                             session_end |-> r.next_session_begin >= 0,
                             end_at |-> IF r.next_session_begin >= 0
                                        THEN (now \div SecondsPerDay) * SecondsPerDay
                                               + r.next_session_begin
                                        ELSE -1]
              /\ props' = [props EXCEPT ![PROP_LISTENING_BAND] = JArr(r.bands),
                                        ![PROP_NEXT_SESSION_BAND] = JNum(0)]
              /\ pc' = "Running"
              /\ UNCHANGED reason
         [] r.status = "err" ->
              /\ reason' = "ProcessStartError"
              /\ pc' = "BackoffWait"
              /\ UNCHANGED <<spawned, alive, session, props>>
         [] r.status = "panic" ->
              /\ pc' = "Panicked"
              /\ UNCHANGED <<spawned, alive, session, props, reason>>
    /\ UNCHANGED <<validators, api_token, disable_api_control, reload_signal,
                   end_session_signal, httpVars, schedule, now, should_run,
                   session_timeout_secs, session_intermission_secs, interrupt_signal,
                   cancel_token, lines_read, cff_rx, procVars, last_pm, interrupted,
                   last_write, last_end, bandVars>>

\* module.start_session(reason) and the match on its result
StartSession(rnd, af, spawn_ok) ==
    StartSessionResult(start_session(reason, rnd, af, spawn_ok))

BackoffElapsed_exits ==
    /\ pc = "BackoffWait"
    /\ pc' = "Joining"
    /\ cancel_token' = TRUE
    /\ UNCHANGED <<settingsVars, httpVars, moduleVars, now, should_run, reason, session,
                   alive, spawned, session_timeout_secs, session_intermission_secs,
                   interrupt_signal, lines_read, cff_rx, procVars, histVars, bandVars>>

\* the failed-start wait: sleep(60 s) elapsed
BackoffElapsed ==
    /\ pc = "BackoffWait"
    /\ pc' = "Starting"
    /\ UNCHANGED <<settingsVars, httpVars, moduleVars, now, should_run, reason, session,
                   alive, spawned, session_timeout_secs, session_intermission_secs,
                   interrupt_signal, cancel_token, lines_read, cff_rx, procVars, histVars, bandVars>>

\* interrupt_signal.recv() during the failed-start wait or the intermission: break
WaitInterrupt ==
    /\ pc \in {"BackoffWait", "Intermission"}
    /\ interrupt_signal
    /\ interrupt_signal' = FALSE
    /\ pc' = "Joining"
    /\ cancel_token' = TRUE
    /\ UNCHANGED <<settingsVars, httpVars, moduleVars, now, should_run, reason, session,
                   alive, spawned, session_timeout_secs, session_intermission_secs,
                   lines_read, cff_rx, procVars, histVars, bandVars>>

\* sleep(session_intermission_secs) elapsed
IntermissionElapsed ==
    /\ pc = "Intermission"
    /\ pc' = "Starting"
    /\ UNCHANGED <<settingsVars, httpVars, moduleVars, now, should_run, reason, session,
                   alive, spawned, session_timeout_secs, session_intermission_secs,
                   interrupt_signal, cancel_token, lines_read, cff_rx, procVars, histVars, bandVars>>

\* what follows process_message(line) = r: tx.send(frame) or continue
ReadLineResult(line, r) ==
    LET n     == lines_read + 1
        sent  == IF r.result = "Ok" THEN <<CFF(n, session.child)>> ELSE <<>>
        sig   == IF r.signal THEN <<"SessionUpdate">> ELSE <<>>
    IN
    /\ pc = "Running"
    /\ lines_read < MaxLines
    /\ Len(change_event_rx) + Len(r.events) <= ChanCap \/ ~proc_open
    /\ Len(cff_rx) + Len(sent) <= ChanCap \/ ~proc_open
    /\ Len(end_session_signal) + Len(sig) <= MaxSignals
    /\ lines_read' = n
    /\ stations' = r.stations
    /\ change_event_rx' = tx_send(change_event_rx, r.events, proc_open)
    /\ end_session_signal' = end_session_signal \o sig
    /\ last_pm' = [n |-> n, line |-> line, band |-> session.band, result |-> r.result,
                   events |-> r.events, signals |-> Len(sig), at |-> now,
                   prev_line |-> last_pm.line, prev_result |-> last_pm.result,
                   prev_at |-> last_pm.at, child |-> session.child,
                   after_signal |->
                       IF end_session_signal = <<>> THEN 0
                       ELSE IF last_pm.child = session.child
                       THEN last_pm.after_signal + 1
                       ELSE 1]
    /\ cff_rx' = tx_send(cff_rx, sent, proc_open)
    /\ IF r.result # "Ok" /\ malformed_frame = "break"
       THEN /\ LeaveRunning("Malformed", "ReadError", should_run)
       ELSE /\ UNCHANGED <<pc, should_run, reason, session, alive, cancel_token, last_end>>
    /\ UNCHANGED <<props, validators, api_token, disable_api_control, reload_signal,
                   httpVars, moduleVars, now, spawned, session_timeout_secs,
                   session_intermission_secs, interrupt_signal, procVars,
                   last_start, interrupted, start_after_interrupt, last_write, bandVars, expired>>

\* select arm 1, a line of read_size > 0: process_message, then tx.send(frame)
ReadLine(line) == ReadLineResult(line, process_message(line, session.band))

\* select arm 1, read_size = 0
ReadEOF ==
    /\ pc = "Running"
    /\ LeaveRunning("ReadEOF", "ReadEOF", should_run)
    /\ UNCHANGED <<settingsVars, httpVars, moduleVars, now, spawned, session_timeout_secs,
                   session_intermission_secs, interrupt_signal, lines_read, cff_rx,
                   procVars, last_pm, last_start,
                   interrupted, start_after_interrupt, last_write, bandVars, expired>>

MaxExpired == 2

on_timeout_always(sess) == TRUE

\* Session::on_timeout of DumpHFDLSession and of DumpVDL2Session
on_timeout(sess) == sess.end_on_timeout

\* select arm 1, the read deadline expired: Session::on_timeout decides between
\* SessionTimeout and `since_last_msg = Instant::now(); continue`
Timeout ==
    /\ pc = "Running"
    /\ IF on_timeout(session)
       THEN /\ LeaveRunning("Timeout", "SessionTimeout", should_run)
            /\ UNCHANGED expired
       ELSE /\ expired < MaxExpired
            /\ expired' = expired + 1
            /\ UNCHANGED <<pc, should_run, reason, session, alive, cancel_token, last_end>>
    /\ UNCHANGED <<settingsVars, httpVars, moduleVars, now, spawned, session_timeout_secs,
                   session_intermission_secs, interrupt_signal, lines_read, cff_rx,
                   procVars, last_pm, last_start,
                   interrupted, start_after_interrupt, last_write, bandVars>>

scheduled_end_never(sess) == FALSE

\* DumpHFDLSession::read_message: sleep_until(session_start + session_end) is
\* ready once the wall clock has passed the scheduled end
scheduled_end_due(sess) == sess.session_end /\ now > sess.end_at

\* the wall clock passes the scheduled end of the running session
Elapse ==
    /\ pc = "Running"
    /\ session.session_end
    /\ now <= session.end_at
    /\ now' = session.end_at + 1
    /\ UNCHANGED <<settingsVars, httpVars, moduleVars, orchVars, procVars, histVars, bandVars>>

\* `if matches!(reason, EndSessionReason::None) { reason = ReadError }`
read_error_reason(r) == IF r = "None" THEN "ReadError" ELSE r

\* select arm 1, read_message returned Err(e): e is "scheduled_end" (the
\* SESSION_SCHEDULED_END marker), "other_no_inner" (ErrorKind::Other without an
\* inner error) or "io" (any other read failure)
ReadError(e) ==
    /\ pc = "Running"
    /\ e = "scheduled_end" => scheduled_end_due(session)
    /\ LeaveRunning(e,
                    CASE e = "scheduled_end"  -> "SessionEnd"
                      [] e = "other_no_inner" -> "ReadError"
                      [] OTHER -> read_error_reason(reason),
                    should_run)
    /\ UNCHANGED <<settingsVars, httpVars, moduleVars, now, spawned, session_timeout_secs,
                   session_intermission_secs, interrupt_signal, lines_read, cff_rx,
                   procVars, last_pm, last_start,
                   interrupted, start_after_interrupt, last_write, bandVars, expired>>

\* select arm 2: end_session_signal.recv()
EndSessionRecv ==
    /\ pc = "Running"
    /\ end_session_signal # <<>>
    /\ end_session_signal' = Tail(end_session_signal)
    /\ LeaveRunning("EndSession", Head(end_session_signal), should_run)
    /\ UNCHANGED <<props, validators, stations, api_token, disable_api_control,
                   reload_signal, change_event_rx, httpVars, moduleVars, now, spawned,
                   session_timeout_secs, session_intermission_secs, interrupt_signal,
                   lines_read, cff_rx, procVars, last_pm, last_start,
                   interrupted, start_after_interrupt, last_write, bandVars, expired>>

\* select arm 3: interrupt_signal.recv()
Interrupt ==
    /\ pc = "Running"
    /\ interrupt_signal
    /\ interrupt_signal' = FALSE
    /\ LeaveRunning("Interrupt", "UserInterrupt", FALSE)
    /\ UNCHANGED <<settingsVars, httpVars, moduleVars, now, spawned, session_timeout_secs,
                   session_intermission_secs, lines_read, cff_rx, procVars, last_pm, last_start,
                   interrupted, start_after_interrupt, last_write, bandVars, expired>>

\* select arm 4: reload_signal.recv(), then module.reload()
Reload ==
    /\ pc = "Running"
    /\ reload_signal > 0
    /\ reload_signal' = reload_signal - 1
    /\ session_timeout_secs' =
           as_u64(props[PROP_SESSION_TIMEOUT_SEC], DEFAULT_SESSION_TIMEOUT_SECS)
    /\ session_intermission_secs' =
           as_u64(props[PROP_SESSION_INTERMISSION_SEC], DEFAULT_SESSION_INTERMISSION_SECS)
    /\ schedule' = IF props[PROP_SESSION_SCHEDULE].k = "String"
                   THEN props[PROP_SESSION_SCHEDULE].t ELSE schedule
    /\ UNCHANGED <<props, validators, stations, api_token, disable_api_control,
                   end_session_signal, change_event_rx, httpVars, last_req_session_band,
                   last_random_freq_band, now, pc, should_run, reason, session, alive,
                   spawned, interrupt_signal, cancel_token, lines_read, cff_rx,
                   procVars, histVars, bandVars>>

\* tokio::join!(http_thread, processor_thread) returns
Join ==
    /\ pc = "Joining"
    /\ http_pc = "done"
    /\ proc_pc = "done"
    /\ pc' = "Done"
    /\ UNCHANGED <<settingsVars, httpVars, moduleVars, now, should_run, reason, session,
                   alive, spawned, session_timeout_secs, session_intermission_secs,
                   interrupt_signal, cancel_token, lines_read, cff_rx, procVars, histVars, bandVars>>

\* a SIGINT reaches the process; pending signals coalesce
DeliverInterrupt ==
    /\ pc \notin {"Joining", "Done", "Panicked"}
    /\ ~interrupt_signal
    /\ interrupt_signal' = TRUE
    /\ interrupted' = IF interrupted = "" THEN pc ELSE interrupted
    /\ UNCHANGED <<settingsVars, httpVars, moduleVars, now, pc, should_run, reason,
                   session, alive, spawned, session_timeout_secs,
                   session_intermission_secs, cancel_token, lines_read, cff_rx,
                   procVars, last_pm, last_start, start_after_interrupt, last_write,
                   last_end, bandVars, expired>>

\* the wall clock advances
Tick ==
    /\ now < MaxTime
    /\ now' = now + 1
    /\ UNCHANGED <<settingsVars, httpVars, moduleVars, orchVars, procVars, histVars, bandVars>>

\* http_thread: http_cancel_token.cancelled()
HttpCancelled ==
    /\ http_pc = "running"
    /\ cancel_token
    /\ http_pc' = "done"
    /\ UNCHANGED <<settingsVars, http_req, http_resp, moduleVars, now, orchVars, procVars,
                   histVars, bandVars>>

----------------------------------------------------------------------------
(* processor_thread and the ES batcher (src/modules/mod.rs,                *)
(* src/common/batcher.rs).                                                 *)

\* the initial connect loop: TcpStream::connect succeeded (ok), or the 60 s of
\* retries ran out; a failed attempt followed by the retry sleep changes nothing
ProcConnect(ok) ==
    /\ proc_pc = "connect"
    /\ proc_pc' = "loop"
    /\ swarm_stream' = IF ok THEN "up" ELSE "none"
    /\ UNCHANGED <<settingsVars, httpVars, moduleVars, now, orchVars, swarm_url, es_url,
                   frames_batch, batcher, dequeued, swarm_out, db_out, es_out, histVars, bandVars>>

\* processor_cancel_token.cancelled() during the initial connect: return
ProcConnectCancelled ==
    /\ proc_pc = "connect"
    /\ cancel_token
    /\ proc_pc' = "done"
    /\ UNCHANGED <<settingsVars, httpVars, moduleVars, now, orchVars, swarm_url, es_url,
                   swarm_stream, frames_batch, batcher, dequeued, swarm_out, db_out,
                   es_out, histVars, bandVars>>

\* Some(frame) = rx.recv(): w is what write_all on the swarm stream does: "ok",
\* "broken_reconnect" (BrokenPipe, the reconnect succeeds), "broken" (BrokenPipe, the
\* reconnect fails) or "error" (another error)
RecvFrame(w) ==
    LET frame == Head(cff_rx)
    IN
    /\ proc_pc = "loop"
    /\ cff_rx # <<>>
    /\ CASE swarm_stream = "up"     -> TRUE
         [] swarm_stream = "broken" -> w \in {"broken_reconnect", "broken"}
         [] OTHER                   -> w = "ok"
    /\ cff_rx' = Tail(cff_rx)
    /\ dequeued' = Append(dequeued, frame)
    /\ last_write' = IF swarm_stream # "none" THEN w ELSE last_write
    /\ IF swarm_stream # "none"
       THEN /\ swarm_out' = IF w = "ok" THEN Append(swarm_out, frame) ELSE swarm_out
            /\ swarm_stream' = CASE w = "broken_reconnect" -> "up"
                                 [] w = "broken"           -> "broken"
                                 [] OTHER                  -> swarm_stream
            /\ UNCHANGED db_out
       ELSE /\ db_out' = Append(db_out, frame)
            /\ UNCHANGED <<swarm_out, swarm_stream>>
    /\ IF es_url
       THEN /\ batcher' = IF frames_batch = <<>> THEN "sleeping" ELSE batcher
            /\ frames_batch' = Append(frames_batch, frame)
       ELSE UNCHANGED <<batcher, frames_batch>>
    /\ UNCHANGED <<settingsVars, httpVars, moduleVars, now, pc, should_run, reason, session,
                   alive, spawned, session_timeout_secs, session_intermission_secs,
                   interrupt_signal, cancel_token, lines_read, swarm_url, es_url,
                   proc_pc, es_out, last_pm, last_start, interrupted,
                   start_after_interrupt, last_end, bandVars, expired>>

\* Some(change_event) = change_event_rx.recv()
RecvChangeEvent ==
    /\ proc_pc = "loop"
    /\ change_event_rx # <<>>
    /\ change_event_rx' = Tail(change_event_rx)
    /\ UNCHANGED <<props, validators, stations, api_token, disable_api_control,
                   reload_signal, end_session_signal, httpVars, moduleVars, now,
                   orchVars, procVars, histVars, bandVars>>

\* where the processor goes when it leaves its loop: batcher.await if a batcher
\* handle is held and its task has not finished
after_loop_no_await == "done"

after_loop == IF batcher \in {"sleeping", "indexing"} THEN "await_batcher" ELSE "done"

\* stream.shutdown() on return
shutdown(stream) == IF stream = "none" THEN "none" ELSE "closed"

\* processor_cancel_token.cancelled() in the loop: break
ProcCancelled ==
    /\ proc_pc = "loop"
    /\ cancel_token
    /\ proc_pc' = after_loop
    /\ swarm_stream' = IF after_loop = "done" THEN shutdown(swarm_stream) ELSE swarm_stream
    /\ UNCHANGED <<settingsVars, httpVars, moduleVars, now, orchVars, swarm_url, es_url,
                   frames_batch, batcher, dequeued, swarm_out, db_out, es_out, histVars, bandVars>>

\* batcher.await returns
AwaitBatcher ==
    /\ proc_pc = "await_batcher"
    /\ batcher \in {"finished", "panicked"}
    /\ proc_pc' = "done"
    /\ swarm_stream' = shutdown(swarm_stream)
    /\ UNCHANGED <<settingsVars, httpVars, moduleVars, now, orchVars, swarm_url, es_url,
                   frames_batch, batcher, dequeued, swarm_out, db_out, es_out, histVars, bandVars>>

\* create_es_batch_task: after the sleep, lock the batch, bulk_index it, clear it.
\* r is what bulk_index does: "ok", "err" (it returns Err) or "panic" (the response
\* has no boolean "errors" member and as_bool().unwrap() panics: the task ends
\* before batch.clear())
BatcherFlush(r) ==
    /\ batcher = "sleeping"
    /\ es_out' = IF r = "ok" THEN es_out \o frames_batch ELSE es_out
    /\ frames_batch' = IF r = "panic" THEN frames_batch ELSE <<>>
    /\ batcher' = IF r = "panic" THEN "panicked" ELSE "finished"
    /\ UNCHANGED <<settingsVars, httpVars, moduleVars, now, orchVars, swarm_url, es_url,
                   proc_pc, swarm_stream, dequeued, swarm_out, db_out, histVars, bandVars>>

----------------------------------------------------------------------------
(* Initial states.                                                         *)

GoodSchedule == <<Tok(<<3>>, <<3, 0>>, <<6, 5, 2, 9>>)>>

NoEnd   == [cause |-> "", reason |-> "None", child |-> 0, at |-> 0]
NoLine  == Line("none", TRUE, 0, <<>>, TRUE)
NoPm    == [n |-> 0, line |-> NoLine, band |-> <<>>, result |-> "none", events |-> <<>>,
            signals |-> 0, at |-> 0, prev_line |-> NoLine, prev_result |-> "none",
            prev_at |-> 0, child |-> 0, after_signal |-> 0]
NoStart == [reason |-> "None", prop |-> JNull, scheduled |-> FALSE, status |-> "none",
            err |-> "", bands |-> <<>>, requested |-> 0, all_freqs |-> <<>>,
            method |-> JNull, prev_band |-> JNull, prev_random |-> 0, prev_req |-> 0,
            entries |-> <<>>]

\* ModuleSettings::new, HfdlModule::init and the channels made by
\* ModuleManager::start, for a command line giving the props p
InitSettings(p) ==
    /\ props = p
    /\ validators = add_prop_with_validator
    /\ stations = <<>>
    /\ reload_signal = 0
    /\ end_session_signal = <<>>
    /\ change_event_rx = <<>>
    /\ http_pc = "running"
    /\ http_req = NoReq
    /\ http_resp = Resp(0, FALSE, FALSE)
    /\ schedule = p[PROP_SESSION_SCHEDULE].t
    /\ last_random_freq_band = 0
    /\ session_timeout_secs = p[PROP_SESSION_TIMEOUT_SEC].n
    /\ session_intermission_secs = p[PROP_SESSION_INTERMISSION_SEC].n
    /\ should_run = TRUE
    /\ reason = "None"
    /\ interrupt_signal = FALSE
    /\ cancel_token = FALSE
    /\ lines_read = 0
    /\ cff_rx = <<>>
    /\ last_pm = NoPm
    /\ last_start = NoStart
    /\ interrupted = ""
    /\ start_after_interrupt = FALSE
    /\ last_write = ""
    /\ last_end = NoEnd
    /\ expired = 0

\* the orchestrator before its first start_session
InitOrch ==
    /\ pc = "Starting"
    /\ session = NoSession
    /\ alive = {}
    /\ spawned = 0
    /\ last_req_session_band = 0

\* the orchestrator in its first session, listening on band
InitRunning(band) ==
    /\ pc = "Running"
    /\ session = [child |-> 1, band |-> band, end_on_timeout |-> TRUE,
                  session_end |-> FALSE, end_at |-> -1]
    /\ alive = {1}
    /\ spawned = 1
    /\ last_req_session_band = band[1]

NoPending == [events |-> <<>>, signal |-> <<>>, frames |-> <<>>]

NoRead == [some |-> FALSE, line |-> NoLine, n |-> 0, child |-> 0, expired |-> 0, reloads |-> 0]

\* parse_session_schedule has not been called on its own, no send is waiting and
\* no line is partly read
NotParsed ==
    /\ ps_value = <<>>
    /\ ps_now = 0
    /\ ps_schedule = [computed |-> FALSE, ok |-> FALSE, entries |-> <<>>]
    /\ tx_pending = NoPending
    /\ read_buf = NoRead
    /\ signal_sent = <<>>

\* neither freq_bands_by_sample_rate nor parse_session_schedule has been called
\* on its own
NoBands ==
    /\ fb_freqs = <<>>
    /\ fb_sample_rate = 0
    /\ fb_bands = [computed |-> FALSE, bands |-> {}]
    /\ NotParsed

\* the processor task as spawned, for the given --swarm and --elastic
InitProc(swarm, es) ==
    /\ swarm_url = swarm
    /\ es_url = es
    /\ proc_pc = IF swarm THEN "connect" ELSE "loop"
    /\ swarm_stream = "none"
    /\ frames_batch = <<>>
    /\ batcher = "none"
    /\ dequeued = <<>>
    /\ swarm_out = <<>>
    /\ db_out = <<>>
    /\ es_out = <<>>

DefaultProps == InitProps(0, JStr(""), DEFAULT_SESSION_METHOD, FALSE, FALSE)

----------------------------------------------------------------------------
(* SpecPatch: the HTTP handlers on the settings store.                     *)

PatchHeaders == {"", "tok", "bad"}
PatchProps   == {PROP_LISTENING_BAND, PROP_NEXT_SESSION_BAND, PROP_SESSION_METHOD,
                 PROP_SESSION_SCHEDULE, PROP_SESSION_INTERMISSION_SEC, "no_such_prop"}
PatchValues  == {JNull, JBool(TRUE), JNum(0), JNum(8000), JNum(21998),
                 JStr("static"), JStr("INC"), JStr("track:1"),
                 JSched(GoodSchedule), JSched(<<BadTok>>), JArr(<<8921>>)}

InitPatch ==
    /\ NoBands
    /\ InitSettings(DefaultProps)
    /\ api_token \in {"", "tok"}
    /\ disable_api_control \in BOOLEAN
    /\ now = 0
    /\ InitOrch
    /\ InitProc(FALSE, FALSE)

Patch  == \E h \in PatchHeaders, p \in PatchProps, v \in PatchValues : patch(h, p, v)
Get    == \E h \in PatchHeaders : get(h)
Delete == \E h \in PatchHeaders : delete(h)

NextPatch == Patch \/ Get \/ Delete

SpecPatch == InitPatch /\ [][NextPatch]_vars

----------------------------------------------------------------------------
(* SpecFreqBands: freq_bands_by_sample_rate on sorted, de-duplicated lists *)
(* of u16 frequencies and u32 sample rates.                                *)

FreqPool == {0, 40, 2998, 3050, 3458, 3459, 65535}

\* max_dist_khz 460, 45, 0, and 65610 which `as u16` turns into 74
BandSampleRates == {512000, 50000, 0, 72900000}

InitFreqBands ==
    /\ InitSettings(DefaultProps)
    /\ api_token = ""
    /\ disable_api_control = FALSE
    /\ now = 0
    /\ InitOrch
    /\ InitProc(FALSE, FALSE)
    /\ fb_freqs \in {SortSet(S) : S \in SUBSET FreqPool}
    /\ fb_sample_rate \in BandSampleRates
    /\ fb_bands = [computed |-> FALSE, bands |-> {}]
    /\ NotParsed

FreqBands ==
    /\ ~fb_bands.computed
    /\ fb_bands' = [computed |-> TRUE,
                    bands    |-> freq_bands_by_sample_rate(fb_freqs, fb_sample_rate)]
    /\ UNCHANGED <<settingsVars, httpVars, moduleVars, now, orchVars, procVars, histVars,
                   fb_freqs, fb_sample_rate, ps_value, ps_now, ps_schedule, tx_pending,
                   read_buf, signal_sent>>

NextFreqBands == FreqBands

SpecFreqBands == InitFreqBands /\ [][NextFreqBands]_vars

----------------------------------------------------------------------------
(* SpecSchedule: parse_session_schedule on schedules of one or two tokens  *)
(* at several local times.                                                 *)

\* 03:30, 3:30, 15:00, 00:00, 10:15, 20:00, 23:59, 24:00, 12:60; frequencies of
\* three, four, five (one above u16::MAX) and six digits; a token of another shape
ScheduleTokens ==
    {Tok(<<0, 3>>, <<3, 0>>, <<6, 5, 2, 9>>), Tok(<<3>>, <<3, 0>>, <<8, 9, 2, 1>>),
     Tok(<<1, 5>>, <<0, 0>>, <<1, 0, 0, 2, 7>>), Tok(<<0, 0>>, <<0, 0>>, <<6, 5, 2, 9>>),
     Tok(<<1, 0>>, <<1, 5>>, <<6, 5, 2, 9>>), Tok(<<2, 0>>, <<0, 0>>, <<6, 5, 2, 9>>),
     Tok(<<2, 3>>, <<5, 9>>, <<2, 9, 9, 8>>), Tok(<<2, 4>>, <<0, 0>>, <<6, 5, 2, 9>>),
     Tok(<<1, 2>>, <<6, 0>>, <<6, 5, 2, 9>>), Tok(<<1, 5>>, <<0, 0>>, <<9, 9, 9>>),
     Tok(<<1, 5>>, <<0, 0>>, <<7, 0, 0, 0, 0>>), Tok(<<1, 5>>, <<0, 0>>, <<1, 2, 3, 4, 5, 6>>),
     BadTok}

\* Local::now(): midnight, 10:00, 15:00 and 15:00:01
ScheduleTimes == {0, 36000, 54000, 54001}

InitSchedule ==
    /\ InitSettings(DefaultProps)
    /\ api_token = ""
    /\ disable_api_control = FALSE
    /\ now = 0
    /\ InitOrch
    /\ InitProc(FALSE, FALSE)
    /\ fb_freqs = <<>>
    /\ fb_sample_rate = 0
    /\ fb_bands = [computed |-> FALSE, bands |-> {}]
    /\ ps_value \in {<<a>> : a \in ScheduleTokens}
                      \cup {<<a, b>> : a, b \in ScheduleTokens}
    /\ ps_now \in ScheduleTimes
    /\ ps_schedule = [computed |-> FALSE, ok |-> FALSE, entries |-> <<>>]
    /\ tx_pending = NoPending
    /\ read_buf = NoRead
    /\ signal_sent = <<>>

ParseSchedule ==
    LET r == parse_session_schedule(ps_value, ps_now)
    IN
    /\ ~ps_schedule.computed
    /\ ps_schedule' = [computed |-> TRUE, ok |-> r.ok, entries |-> r.entries]
    /\ UNCHANGED <<settingsVars, httpVars, moduleVars, now, orchVars, procVars, histVars,
                   fb_freqs, fb_sample_rate, fb_bands, ps_value, ps_now, tx_pending,
                   read_buf, signal_sent>>

NextSchedule == ParseSchedule

SpecSchedule == InitSchedule /\ [][NextSchedule]_vars

----------------------------------------------------------------------------
(* SpecSpdu: one session reading decoder lines; the registry and the SPDU  *)
(* feedback.                                                               *)

ListeningBand == <<10027, 10081>>

GS(id, freqs) == [id |-> id, freqs |-> freqs]

\* gs_status lists: in the band, below its lower edge (427 kHz under it), far
\* from it, and one station listed twice
GsLists == {<<GS(1, {10027})>>, <<GS(1, {9600})>>, <<GS(2, {8921})>>,
            <<GS(1, {10027}), GS(2, {10500})>>, <<GS(1, {10027}), GS(1, {})>>}

SpduLines ==
    {Line("spdu", TRUE, SystableVersion, gs, TRUE) : gs \in GsLists}
    \cup {Line("spdu", ok, SystableVersion + 1, <<GS(1, {10027})>>, TRUE) : ok \in BOOLEAN}
    \cup {Line("lpdu", TRUE, 0, <<>>, ok) : ok \in BOOLEAN}
    \cup {Line("badjson", TRUE, 0, <<>>, TRUE), Line("nopdu", TRUE, 0, <<>>, TRUE)}

InitSpdu ==
    /\ NoBands
    /\ \E active \in BOOLEAN, stale \in {0, 1, DEFAULT_STALE_TIMEOUT_SECS} :
         InitSettings([InitProps(0, JStr(""), DEFAULT_SESSION_METHOD, active, FALSE)
                         EXCEPT ![PROP_STALE_TIMEOUT_SEC] = JNum(stale),
                                ![PROP_LISTENING_BAND] = JArr(ListeningBand)])
    /\ api_token = ""
    /\ disable_api_control = FALSE
    /\ now = 0
    /\ InitRunning(ListeningBand)
    /\ InitProc(FALSE, FALSE)

ReadSpdu == \E line \in SpduLines : ReadLine(line)

RecvFrames == \E w \in {"ok", "broken_reconnect", "broken", "error"} : RecvFrame(w)

NextSpdu == ReadSpdu \/ Tick \/ RecvChangeEvent \/ RecvFrames

SpecSpdu == InitSpdu /\ [][NextSpdu]_vars

----------------------------------------------------------------------------
(* SpecBand: the session life cycle and the band start_session chooses.    *)

MaxRnd == 2

NoAirframes == [ok |-> FALSE, gs |-> <<>>]

\* time=3:30,band_contains=6529;time=15:30,band_contains=2998
TwoSchedule == <<Tok(<<3>>, <<3, 0>>, <<6, 5, 2, 9>>),
                 Tok(<<1, 5>>, <<3, 0>>, <<2, 9, 9, 8>>)>>

InitBand ==
    /\ NoBands
    /\ \E band \in {0, 8000}, method \in {"random", "static", "inc"},
          sched \in {JStr(""), JSched(GoodSchedule), JSched(TwoSchedule)} :
         InitSettings(InitProps(band, sched, method, FALSE, FALSE))
    /\ api_token = ""
    /\ disable_api_control = FALSE
    /\ now = 0
    /\ InitOrch
    /\ InitProc(FALSE, FALSE)

StartBand == \E rnd \in 0..MaxRnd, ok \in BOOLEAN : StartSession(rnd, NoAirframes, ok)

PatchBand == \E v \in {JNum(0), JNum(8000)} : patch("", PROP_NEXT_SESSION_BAND, v)

PatchListeningBand ==
    \E v \in {JArr(<<>>), JArr(<<8921>>)} : patch("", PROP_LISTENING_BAND, v)

DeleteBand == delete("")

ReadErrors == \E e \in {"scheduled_end", "other_no_inner", "io"} : ReadError(e)

NextBand ==
    \/ StartBand \/ BackoffElapsed \/ ReadEOF \/ Timeout \/ ReadErrors \/ Elapse
    \/ EndSessionRecv \/ Reload \/ PatchBand \/ PatchListeningBand \/ DeleteBand

SpecBand == InitBand /\ [][NextBand]_vars

----------------------------------------------------------------------------
(* SpecSelect: start_session over pools of one to four bands, under every  *)
(* session method, from every current band.                                *)

\* --next-session-band on the command line: none, a frequency of one band, or
\* a frequency above every frequency of the pool
SelectTargets == {0, 6000, 8000, 10000, 22000}

SelectMethods == {"inc", "dec", "random", "static", "track:1"}

\* the answers of get_airframes_gs_status: a failure, and active frequencies of
\* one, two and three bands
AfAnswers == {NoAirframes,
              [ok |-> TRUE, gs |-> <<GS(1, {8921})>>],
              [ok |-> TRUE, gs |-> <<GS(1, {8921}), GS(2, {6529})>>],
              [ok |-> TRUE, gs |-> <<GS(1, {8921, 2998}), GS(2, {6529})>>]}

InitSelect ==
    /\ NoBands
    /\ \E band \in SelectTargets, method \in SelectMethods, airframes \in BOOLEAN :
         InitSettings(InitProps(band, JStr(""), method, FALSE, airframes))
    /\ api_token = ""
    /\ disable_api_control = FALSE
    /\ now = 0
    /\ InitOrch
    /\ InitProc(FALSE, FALSE)

StartSelect ==
    \E rnd \in 0..MaxRnd, af \in AfAnswers, ok \in BOOLEAN : StartSession(rnd, af, ok)

NextSelect ==
    \/ StartSelect \/ BackoffElapsed \/ ReadEOF \/ Timeout \/ RecvChangeEvent
    \/ DeliverInterrupt \/ WaitInterrupt \/ Interrupt

SpecSelect == InitSelect /\ [][NextSelect]_vars

\* sleep(60 s) elapses, and a select! takes a branch that stays ready
FairSelect == SpecSelect /\ WF_vars(BackoffElapsed) /\ WF_vars(WaitInterrupt)

----------------------------------------------------------------------------
(* SpecAoa: the orchestrator driving the AoA module (src/modules/aoa).     *)

AOA_DEFAULT_SESSION_TIMEOUT_SECS == 900
DEFAULT_VDL2_FREQ                == 136975

\* --start-bands as parse_arguments leaves them in self.next_session_band
StartBands == {<<DEFAULT_VDL2_FREQ>>, <<136650, 136975>>}

\* the props after ModuleSettings::new, AoaModule::init and the listening_band
\* registration
AoaProps(sb) ==
    [p \in {PROP_SESSION_TIMEOUT_SEC, PROP_SESSION_INTERMISSION_SEC,
            PROP_LISTENING_BAND, PROP_NEXT_SESSION_BAND} |->
        CASE p = PROP_SESSION_TIMEOUT_SEC      -> JNum(AOA_DEFAULT_SESSION_TIMEOUT_SECS)
          [] p = PROP_SESSION_INTERMISSION_SEC -> JNum(DEFAULT_SESSION_INTERMISSION_SECS)
          [] p = PROP_LISTENING_BAND           -> JArr(<<>>)
          [] p = PROP_NEXT_SESSION_BAND        -> JArr(sb)]

\* AoaModule::start_session: the bands of the new session are the array held by
\* the next_session_band prop; spawn_ok is whether dumpvdl2 could be spawned
aoa_start_session(spawn_ok) ==
    LET value == props[PROP_NEXT_SESSION_BAND]
    IN  IF value.k # "Array"
        THEN [status |-> "err", err |-> "PROP_NEXT_SESSION_BAND expects an array of numbers",
              bands |-> <<>>]
        ELSE IF ~spawn_ok
        THEN [status |-> "err", err |-> "Failed to spawn process", bands |-> <<>>]
        ELSE [status |-> "ok", err |-> "", bands |-> value.a]

\* module.start_session(reason) of the AoA module and the match on its result
AoaStartSessionResult(r) ==
    /\ pc = "Starting"
    /\ spawned < MaxSessions
    /\ expired' = 0
    /\ last_start' = [reason |-> reason, prop |-> props[PROP_NEXT_SESSION_BAND],
                      scheduled |-> FALSE, status |-> r.status, err |-> r.err,
                      bands |-> r.bands, requested |-> 0, all_freqs |-> <<>>,
                      method |-> JNull, prev_band |-> props[PROP_LISTENING_BAND],
                      prev_random |-> 0, prev_req |-> 0, entries |-> <<>>]
    /\ start_after_interrupt' =
           (start_after_interrupt \/ interrupted \in {"Running", "BackoffWait", "Intermission"})
    /\ IF r.status = "ok"
       THEN /\ spawned' = spawned + 1
            /\ alive' = alive \cup {spawned + 1}
            /\ session' = [child |-> spawned + 1, band |-> r.bands,
                           end_on_timeout |-> FALSE, session_end |-> FALSE,
                           end_at |-> -1]
            /\ props' = [props EXCEPT ![PROP_LISTENING_BAND] = JArr(r.bands),
                                      ![PROP_NEXT_SESSION_BAND] = JArr(<<>>)]
            /\ pc' = "Running"
            /\ UNCHANGED reason
       ELSE /\ reason' = "ProcessStartError"
            /\ pc' = "BackoffWait"
            /\ UNCHANGED <<spawned, alive, session, props>>
    /\ UNCHANGED <<validators, stations, api_token, disable_api_control, reload_signal,
                   end_session_signal, change_event_rx, httpVars, moduleVars, now,
                   should_run, session_timeout_secs, session_intermission_secs,
                   interrupt_signal, cancel_token, lines_read, cff_rx, procVars, last_pm,
                   interrupted, last_write, last_end, bandVars>>

AoaStartSession(spawn_ok) == AoaStartSessionResult(aoa_start_session(spawn_ok))

InitAoa ==
    /\ NoBands
    /\ \E sb \in StartBands : props = AoaProps(sb)
    /\ validators = [p \in {PROP_LISTENING_BAND, PROP_NEXT_SESSION_BAND} |->
                       IF p = PROP_LISTENING_BAND THEN "validate_listening_bands"
                       ELSE "aoa_validate_next_session_band"]
    /\ stations = <<>>
    /\ reload_signal = 0
    /\ end_session_signal = <<>>
    /\ change_event_rx = <<>>
    /\ http_pc = "running"
    /\ http_req = NoReq
    /\ http_resp = Resp(0, FALSE, FALSE)
    /\ schedule = <<>>
    /\ last_random_freq_band = 0
    /\ session_timeout_secs = AOA_DEFAULT_SESSION_TIMEOUT_SECS
    /\ session_intermission_secs = DEFAULT_SESSION_INTERMISSION_SECS
    /\ should_run = TRUE
    /\ reason = "None"
    /\ interrupt_signal = FALSE
    /\ cancel_token = FALSE
    /\ lines_read = 0
    /\ cff_rx = <<>>
    /\ last_pm = NoPm
    /\ last_start = NoStart
    /\ interrupted = ""
    /\ start_after_interrupt = FALSE
    /\ last_write = ""
    /\ last_end = NoEnd
    /\ expired = 0
    /\ api_token = ""
    /\ disable_api_control = FALSE
    /\ now = 0
    /\ InitOrch
    /\ InitProc(FALSE, FALSE)

AoaStart == \E ok \in BOOLEAN : AoaStartSession(ok)

AoaReadErrors == \E e \in {"other_no_inner", "io"} : ReadError(e)

AoaDelete == delete("")

NextAoa ==
    \/ AoaStart \/ BackoffElapsed \/ WaitInterrupt \/ ReadEOF \/ AoaReadErrors
    \/ AoaDelete \/ EndSessionRecv \/ DeliverInterrupt \/ Interrupt \/ Join
    \/ HttpCancelled \/ ProcCancelled

SpecAoa == InitAoa /\ [][NextAoa]_vars

----------------------------------------------------------------------------
(* Spec: ModuleManager::start, the orchestrator with the tasks it feeds.   *)

SpecLines == {Line("lpdu", TRUE, 0, <<>>, TRUE), Line("badjson", TRUE, 0, <<>>, TRUE)}

FanoutLines == SpecLines \cup {Line("spdu", TRUE, SystableVersion, <<GS(1, {10027})>>, TRUE)}

Init ==
    /\ NoBands
    /\ InitSettings([DefaultProps EXCEPT ![PROP_SESSION_METHOD] = JStr("inc")])
    /\ api_token = ""
    /\ disable_api_control = FALSE
    /\ now = 0
    /\ InitOrch
    /\ InitProc(FALSE, FALSE)

Start == \E ok \in BOOLEAN : StartSession(0, NoAirframes, ok)

ReadOne == \E line \in SpecLines : ReadLine(line)

PatchIntermission == patch("", PROP_SESSION_INTERMISSION_SEC, JNum(1))

Next ==
    \/ Start \/ BackoffElapsed \/ WaitInterrupt \/ IntermissionElapsed
    \/ ReadOne \/ ReadEOF \/ Timeout \/ ReadErrors \/ EndSessionRecv \/ Interrupt
    \/ Reload \/ Join \/ DeliverInterrupt \/ PatchIntermission \/ DeleteBand
    \/ HttpCancelled \/ RecvFrames \/ ProcCancelled

Spec == Init /\ [][Next]_vars

----------------------------------------------------------------------------
(* SpecSignal: DELETE /api/session at every position of the orchestrator.  *)

\* DELETE /api/session requests that send a signal
MaxSent == 2

\* DELETE /api/session, authorized: the handler sends on the unbounded channel
\* whatever the orchestrator is doing
DeleteSession ==
    /\ http_pc = "running"
    /\ Authorized("DELETE", "") = 200
    /\ Len(signal_sent) < MaxSent
    /\ http_req' = Req("DELETE", "", "", JNull)
    /\ http_resp' = Resp(200, TRUE, FALSE)
    /\ end_session_signal' = Append(end_session_signal, "UserAPIControl")
    /\ signal_sent' = Append(signal_sent, [pc |-> pc, spawned |-> spawned])
    /\ UNCHANGED <<props, validators, stations, api_token, disable_api_control,
                   reload_signal, change_event_rx>>
    /\ UNCHANGED <<http_pc, moduleVars, now, orchVars, procVars, histVars,
                   fb_freqs, fb_sample_rate, fb_bands, ps_value, ps_now, ps_schedule,
                   tx_pending, read_buf>>

NextSignal ==
    \/ Start \/ BackoffElapsed \/ IntermissionElapsed \/ ReadOne \/ ReadEOF \/ Timeout
    \/ EndSessionRecv \/ DeleteSession \/ PatchIntermission \/ Reload \/ RecvFrames

SpecSignal == Init /\ [][NextSignal]_vars

----------------------------------------------------------------------------
(* SpecPartial: decoder lines that reach the pipe in two parts, read by the *)
(* read_line future that the select! of the session loop makes anew in     *)
(* every pass.                                                             *)

\* a read_line future has taken the first bytes of a line, and no line has been
\* returned since
partly_read == read_buf.some /\ read_buf.n = lines_read /\ read_buf.child = session.child

\* the future that took the first bytes is still the one being polled: no pass of
\* the loop has ended since (every pass ends with a line, an expired deadline
\* that was restarted, or a reload)
same_future == read_buf.expired = expired /\ read_buf.reloads = reload_signal

\* what read_line returns for the rest of a line whose first bytes went with a
\* dropped future: the tail of a JSON text, which is no JSON text
rest_of(line) == [line EXCEPT !.kind = "badjson"]

\* the decoder has written the first part of a line: the pending read_line
\* appends it to its own buffer and stays pending
ReadPartial(line) ==
    /\ pc = "Running"
    /\ lines_read < MaxLines
    /\ ~partly_read
    /\ read_buf' = [some |-> TRUE, line |-> line, n |-> lines_read,
                    child |-> session.child, expired |-> expired,
                    reloads |-> reload_signal]
    /\ UNCHANGED <<settingsVars, httpVars, moduleVars, now, orchVars, procVars, histVars,
                   fb_freqs, fb_sample_rate, fb_bands, ps_value, ps_now, ps_schedule,
                   tx_pending, signal_sent>>

\* the decoder has written the rest of the line: read_line returns what its
\* future holds
ReadRest ==
    /\ partly_read
    /\ ReadLine(IF same_future THEN read_buf.line ELSE rest_of(read_buf.line))

InitPartial ==
    /\ NoBands
    /\ \E method \in {"static", "inc"} :
         InitSettings(InitProps(0, JStr(""), method, FALSE, FALSE))
    /\ api_token = ""
    /\ disable_api_control = FALSE
    /\ now = 0
    /\ InitOrch
    /\ InitProc(FALSE, FALSE)

ReadParts == \E line \in SpecLines : ReadPartial(line)

\* a line that reaches the pipe in one piece
ReadWhole == ~partly_read /\ ReadOne

\* a PATCH that arrives while no line is partly read
PatchIdle == ~partly_read /\ PatchIntermission

NextPartial ==
    \/ Start \/ ReadParts \/ ReadRest \/ ReadWhole \/ ReadEOF \/ Timeout \/ Reload
    \/ PatchIdle \/ RecvFrames

SpecPartial == InitPartial /\ [][NextPartial]_vars

----------------------------------------------------------------------------
(* SpecReload: PATCHes of the timers and of the schedule, and the reload   *)
(* arm of the session loop.                                                *)

\* a u64 and a Number that is no u64
TimerValues == {JNum(1), JNum(-1)}

InitReload ==
    /\ NoBands
    /\ InitSettings(DefaultProps)
    /\ api_token = ""
    /\ disable_api_control = FALSE
    /\ now = 0
    /\ InitOrch
    /\ InitProc(FALSE, FALSE)

PatchTimers ==
    \E p \in {PROP_SESSION_TIMEOUT_SEC, PROP_SESSION_INTERMISSION_SEC}, v \in TimerValues :
        patch("", p, v)

PatchSchedule == patch("", PROP_SESSION_SCHEDULE, JSched(GoodSchedule))

NextReload ==
    \/ Start \/ BackoffElapsed \/ IntermissionElapsed \/ ReadEOF \/ Timeout
    \/ EndSessionRecv \/ DeleteBand \/ PatchTimers \/ PatchSchedule \/ Reload

SpecReload == InitReload /\ [][NextReload]_vars

----------------------------------------------------------------------------
(* SpecSched: sessions with a scheduled end, under static and under inc,   *)
(* with lines arriving, read deadlines expiring and the clock passing the  *)
(* scheduled end.                                                          *)

InitSched ==
    /\ NoBands
    /\ \E method \in {"static", "inc"}, sched \in {JSched(GoodSchedule), JSched(TwoSchedule)} :
         InitSettings(InitProps(0, sched, method, FALSE, FALSE))
    /\ api_token = ""
    /\ disable_api_control = FALSE
    /\ now = 0
    /\ InitOrch
    /\ InitProc(FALSE, FALSE)

StartSched == StartSession(0, NoAirframes, TRUE)

NextSched ==
    \/ StartSched \/ ReadOne \/ ReadEOF \/ Timeout \/ ReadErrors \/ Elapse
    \/ EndSessionRecv \/ DeleteBand \/ RecvFrames

SpecSched == InitSched /\ [][NextSched]_vars

\* time passes, and the unbiased select! of read_message takes the sleep branch,
\* which stays ready once the scheduled end has passed
FairSched == SpecSched /\ WF_vars(Elapse) /\ WF_vars(ReadError("scheduled_end"))

----------------------------------------------------------------------------
(* SpecUpdate: sessions under only_use_active whose SPDUs change the       *)
(* registry, so that process_message asks for a SessionUpdate restart.     *)

\* gs_status lists naming one, two and three bands of the system table
UpdateLists == {<<GS(1, {2998})>>, <<GS(1, {2998, 6529})>>, <<GS(1, {6529}), GS(2, {8921, 2998})>>}

UpdateLines == {Line("spdu", TRUE, SystableVersion, gs, TRUE) : gs \in UpdateLists}

InitUpdate ==
    /\ NoBands
    /\ \E band \in {0, 6000}, method \in {"inc", "dec", "random", "static"} :
         InitSettings(InitProps(band, JStr(""), method, TRUE, FALSE))
    /\ api_token = ""
    /\ disable_api_control = FALSE
    /\ now = 0
    /\ InitOrch
    /\ InitProc(FALSE, FALSE)

StartUpdate == \E rnd \in 0..MaxRnd : StartSession(rnd, NoAirframes, TRUE)

ReadUpdate == \E line \in UpdateLines : ReadLine(line)

NextUpdate ==
    \/ StartUpdate \/ ReadUpdate \/ ReadEOF \/ EndSessionRecv \/ DeleteBand
    \/ RecvChangeEvent \/ RecvFrames

SpecUpdate == InitUpdate /\ [][NextUpdate]_vars

----------------------------------------------------------------------------
(* SpecOverride: PATCHes of next_session_band and the failed-start wait.   *)

\* values sent to PATCH /api/settings/ for next_session_band
OverrideBands == {0, 1999, 2000, 8000, 12000, 21997}

InitOverride ==
    /\ NoBands
    /\ \E active \in BOOLEAN : InitSettings(InitProps(0, JStr(""), "inc", active, FALSE))
    /\ api_token = ""
    /\ disable_api_control = FALSE
    /\ now = 0
    /\ InitOrch
    /\ InitProc(FALSE, FALSE)

\* start_session with a decoder binary that can be spawned
StartOverride == \E rnd \in 0..MaxRnd : StartSession(rnd, NoAirframes, TRUE)

PatchOverride == \E v \in OverrideBands : patch("", PROP_NEXT_SESSION_BAND, JNum(v))

NextOverride ==
    StartOverride \/ BackoffElapsed \/ PatchOverride \/ Reload \/ ReadEOF \/ Timeout

SpecOverride == InitOverride /\ [][NextOverride]_vars

\* start_session has been called and has not returned
StartPending == pc = "Starting" /\ spawned < MaxSessions

\* sleep(60 s) elapses, and start_session returns (StartOverride is enabled
\* wherever StartPending holds, and ends it)
FairOverride == SpecOverride /\ WF_vars(BackoffElapsed) /\ []<>~StartPending

----------------------------------------------------------------------------
(* SpecFanout: one session feeding the processor, the swarm stream and the *)
(* ES batcher, up to the return of ModuleManager::start.                   *)

InitFanout ==
    /\ NoBands
    /\ InitSettings([DefaultProps EXCEPT ![PROP_LISTENING_BAND] = JArr(ListeningBand)])
    /\ api_token = ""
    /\ disable_api_control = FALSE
    /\ now = 0
    /\ InitRunning(ListeningBand)
    /\ \E swarm \in BOOLEAN, es \in BOOLEAN : ~(swarm /\ es) /\ InitProc(swarm, es)

ProcConnects == \E ok \in BOOLEAN : ProcConnect(ok)

BatcherFlushes == \E r \in {"ok", "err", "panic"} : BatcherFlush(r)

ReadFanout == \E line \in FanoutLines : ReadLine(line)

NextFanout ==
    \/ ReadFanout \/ DeliverInterrupt \/ Interrupt \/ Join \/ HttpCancelled
    \/ ProcConnects \/ ProcConnectCancelled \/ RecvFrames \/ RecvChangeEvent
    \/ ProcCancelled \/ AwaitBatcher \/ BatcherFlushes

SpecFanout == InitFanout /\ [][NextFanout]_vars

\* the tokio runtime polls every spawned task that can make progress, an unbiased
\* select! takes a branch that stays ready, and a started bulk_index request returns
Fairness ==
    /\ WF_vars(HttpCancelled)
    /\ WF_vars(ProcConnectCancelled)
    /\ WF_vars(ProcCancelled)
    /\ WF_vars(BatcherFlushes)
    /\ WF_vars(AwaitBatcher)
    /\ WF_vars(Join)

FairSpec == SpecFanout /\ Fairness

----------------------------------------------------------------------------
(* SpecLock: the session loop, the processor and the ES batcher with the   *)
(* places where one waits for another: Sender::send on a full channel, the *)
(* settings write lock held by process_message across its sends, and the   *)
(* frames_batch mutex held by the batcher across bulk_index.               *)

\* lines read by a loop that then waits in a send
MaxBlockedLines == 3

\* SPDUs that change the sets of two stations and of one; each is also a frame
LockLines ==
    {Line("spdu", TRUE, SystableVersion, <<GS(1, {10027}), GS(2, {10500})>>, TRUE),
     Line("spdu", TRUE, SystableVersion, <<GS(1, {9600})>>, TRUE)}

\* process_message holds settings.write() from its first statement on an SPDU to
\* the end of that block, and so while it waits in change_event_tx.send
settings_write_locked == pc = "SendEvent"

\* the locks the change-event arm of the processor takes
change_event_locks_settings == {"state_db", "settings"}

change_event_locks == {"state_db"}

\* process_message(line) and tx.send(frame) when a send has to wait: the step up
\* to the first send that finds its channel full
ReadLineBlocks(line) ==
    LET r        == process_message(line, session.band)
        n        == lines_read + 1
        sent     == IF r.result = "Ok" THEN <<CFF(n, session.child)>> ELSE <<>>
        sig      == IF r.signal THEN <<"SessionUpdate">> ELSE <<>>
        room     == ChanCap - Len(change_event_rx)
        waits_ev == Len(r.events) > room
        fits     == IF waits_ev THEN room ELSE Len(r.events)
    IN
    /\ pc = "Running"
    /\ lines_read < MaxBlockedLines
    /\ proc_open
    /\ waits_ev \/ Len(cff_rx) + Len(sent) > ChanCap
    /\ Len(end_session_signal) + Len(sig) <= MaxSignals
    /\ lines_read' = n
    /\ stations' = r.stations
    /\ change_event_rx' = change_event_rx \o SubSeq(r.events, 1, fits)
    /\ end_session_signal' = IF waits_ev THEN end_session_signal
                             ELSE end_session_signal \o sig
    /\ tx_pending' = [events |-> SubSeq(r.events, fits + 1, Len(r.events)),
                      signal |-> IF waits_ev THEN sig ELSE <<>>,
                      frames |-> sent]
    /\ pc' = IF waits_ev THEN "SendEvent" ELSE "SendFrame"
    /\ last_pm' = [n |-> n, line |-> line, band |-> session.band, result |-> r.result,
                   events |-> r.events, signals |-> Len(sig), at |-> now,
                   prev_line |-> last_pm.line, prev_result |-> last_pm.result,
                   prev_at |-> last_pm.at, child |-> session.child,
                   after_signal |->
                       IF end_session_signal = <<>> THEN 0
                       ELSE IF last_pm.child = session.child
                       THEN last_pm.after_signal + 1
                       ELSE 1]
    /\ UNCHANGED <<props, validators, api_token, disable_api_control, reload_signal,
                   httpVars, moduleVars, now, should_run, reason, session, alive, spawned,
                   session_timeout_secs, session_intermission_secs, interrupt_signal,
                   cancel_token, cff_rx, procVars, last_start, interrupted,
                   start_after_interrupt, last_write, last_end, expired,
                   fb_freqs, fb_sample_rate, fb_bands, ps_value, ps_now, ps_schedule,
                   read_buf, signal_sent>>

\* change_event_tx.send returns: the loop over gs_status goes on to its next
\* send; after the last one the end-session signal is sent, the write lock is
\* released and the frame goes to tx.send
ChangeEventSent ==
    LET rest == Tail(tx_pending.events)
    IN
    /\ pc = "SendEvent"
    /\ Len(change_event_rx) < ChanCap \/ ~proc_open
    /\ change_event_rx' = tx_send(change_event_rx, <<Head(tx_pending.events)>>, proc_open)
    /\ IF rest # <<>>
       THEN /\ tx_pending' = [tx_pending EXCEPT !.events = rest]
            /\ UNCHANGED <<pc, end_session_signal, cff_rx>>
       ELSE /\ end_session_signal' = end_session_signal \o tx_pending.signal
            /\ IF Len(cff_rx) + Len(tx_pending.frames) <= ChanCap \/ ~proc_open
               THEN /\ cff_rx' = tx_send(cff_rx, tx_pending.frames, proc_open)
                    /\ tx_pending' = NoPending
                    /\ pc' = "Running"
               ELSE /\ tx_pending' = [tx_pending EXCEPT !.events = <<>>, !.signal = <<>>]
                    /\ pc' = "SendFrame"
                    /\ UNCHANGED cff_rx
    /\ UNCHANGED <<props, validators, stations, api_token, disable_api_control,
                   reload_signal, httpVars, moduleVars, now, should_run, reason, session,
                   alive, spawned, session_timeout_secs, session_intermission_secs,
                   interrupt_signal, cancel_token, lines_read, procVars, histVars,
                   fb_freqs, fb_sample_rate, fb_bands, ps_value, ps_now, ps_schedule,
                   read_buf, signal_sent>>

\* tx.send(frame) returns
FrameSent ==
    /\ pc = "SendFrame"
    /\ Len(cff_rx) + Len(tx_pending.frames) <= ChanCap \/ ~proc_open
    /\ cff_rx' = tx_send(cff_rx, tx_pending.frames, proc_open)
    /\ tx_pending' = NoPending
    /\ pc' = "Running"
    /\ UNCHANGED <<settingsVars, httpVars, moduleVars, now, should_run, reason, session,
                   alive, spawned, session_timeout_secs, session_intermission_secs,
                   interrupt_signal, cancel_token, lines_read, procVars, histVars,
                   fb_freqs, fb_sample_rate, fb_bands, ps_value, ps_now, ps_schedule,
                   read_buf, signal_sent>>

\* Some(frame) = rx.recv() while the batcher holds the frames_batch mutex: the
\* frame is written to the swarm stream or the state DB, then the processor
\* waits in frames_batch.lock()
RecvFrameBlocks(w) ==
    LET frame == Head(cff_rx)
    IN
    /\ proc_pc = "loop"
    /\ cff_rx # <<>>
    /\ es_url
    /\ batcher = "indexing"
    /\ CASE swarm_stream = "up"     -> TRUE
         [] swarm_stream = "broken" -> w \in {"broken_reconnect", "broken"}
         [] OTHER                   -> w = "ok"
    /\ cff_rx' = Tail(cff_rx)
    /\ dequeued' = Append(dequeued, frame)
    /\ last_write' = IF swarm_stream # "none" THEN w ELSE last_write
    /\ IF swarm_stream # "none"
       THEN /\ swarm_out' = IF w = "ok" THEN Append(swarm_out, frame) ELSE swarm_out
            /\ swarm_stream' = CASE w = "broken_reconnect" -> "up"
                                 [] w = "broken"           -> "broken"
                                 [] OTHER                  -> swarm_stream
            /\ UNCHANGED db_out
       ELSE /\ db_out' = Append(db_out, frame)
            /\ UNCHANGED <<swarm_out, swarm_stream>>
    /\ proc_pc' = "lock_batch"
    /\ UNCHANGED <<settingsVars, httpVars, moduleVars, now, pc, should_run, reason, session,
                   alive, spawned, session_timeout_secs, session_intermission_secs,
                   interrupt_signal, cancel_token, lines_read, swarm_url, es_url,
                   frames_batch, batcher, es_out, last_pm, last_start, interrupted,
                   start_after_interrupt, last_end, bandVars, expired>>

\* frames_batch.lock() returns: a batcher task is made if the batch is empty, and
\* the frame is pushed
BatchLocked ==
    /\ proc_pc = "lock_batch"
    /\ batcher # "indexing"
    /\ batcher' = IF frames_batch = <<>> THEN "sleeping" ELSE batcher
    /\ frames_batch' = Append(frames_batch, dequeued[Len(dequeued)])
    /\ proc_pc' = "loop"
    /\ UNCHANGED <<settingsVars, httpVars, moduleVars, now, orchVars, swarm_url, es_url,
                   swarm_stream, dequeued, swarm_out, db_out, es_out, histVars, bandVars>>

\* the batcher task: sleep(duration) is over and batch.lock() returned (the
\* processor holds the mutex only between two of its steps)
BatcherLocks ==
    /\ batcher = "sleeping"
    /\ batcher' = "indexing"
    /\ UNCHANGED <<settingsVars, httpVars, moduleVars, now, orchVars, swarm_url, es_url,
                   proc_pc, swarm_stream, frames_batch, dequeued, swarm_out, db_out,
                   es_out, histVars, bandVars>>

\* the batcher task: bulk_index returns (r as in BatcherFlush), batch.clear()
BatcherIndexed(r) ==
    /\ batcher = "indexing"
    /\ es_out' = IF r = "ok" THEN es_out \o frames_batch ELSE es_out
    /\ frames_batch' = IF r = "panic" THEN frames_batch ELSE <<>>
    /\ batcher' = IF r = "panic" THEN "panicked" ELSE "finished"
    /\ UNCHANGED <<settingsVars, httpVars, moduleVars, now, orchVars, swarm_url, es_url,
                   proc_pc, swarm_stream, dequeued, swarm_out, db_out, histVars, bandVars>>

InitLock ==
    /\ NoBands
    /\ InitSettings([DefaultProps EXCEPT ![PROP_LISTENING_BAND] = JArr(ListeningBand)])
    /\ api_token = ""
    /\ disable_api_control = FALSE
    /\ now = 0
    /\ InitRunning(ListeningBand)
    /\ \E es \in BOOLEAN : InitProc(FALSE, es)

ReadLock == \E line \in LockLines : ReadLine(line) \/ ReadLineBlocks(line)

\* rx.recv() with the mutex free, or with the mutex held by the batcher
RecvLock ==
    \E w \in {"ok", "broken_reconnect", "broken", "error"} :
        \/ (es_url => batcher # "indexing") /\ RecvFrame(w)
        \/ RecvFrameBlocks(w)

RecvChangeEventLock ==
    /\ "settings" \in change_event_locks => ~settings_write_locked
    /\ RecvChangeEvent

BatcherIndexes == \E r \in {"ok", "err", "panic"} : BatcherIndexed(r)

\* an HTTP handler waits for the settings lock
GetLock == ~settings_write_locked /\ get("")

OrchestratorStep == ReadLock \/ ChangeEventSent \/ FrameSent \/ Interrupt \/ Join

ProcessorStep ==
    \/ RecvLock \/ RecvChangeEventLock \/ BatchLocked \/ ProcCancelled \/ AwaitBatcher

BatcherStep == BatcherLocks \/ BatcherIndexes

NextLock ==
    \/ OrchestratorStep \/ ProcessorStep \/ BatcherStep
    \/ GetLock \/ HttpCancelled \/ DeliverInterrupt

SpecLock == InitLock /\ [][NextLock]_vars

\* the runtime polls every task that can go on; time::sleep and bulk_index return
FairLock ==
    /\ SpecLock
    /\ Fairness
    /\ WF_vars(ChangeEventSent)
    /\ WF_vars(FrameSent)
    /\ WF_vars(RecvLock)
    /\ WF_vars(RecvChangeEventLock)
    /\ WF_vars(BatchLocked)
    /\ WF_vars(BatcherLocks)
    /\ WF_vars(BatcherIndexes)

----------------------------------------------------------------------------
\* a PATCH on a prop registered with a validator that turns the value down
IsRejectedPatch(req) ==
    /\ req.method = "PATCH"
    /\ req.prop \in DOMAIN validators
    /\ ~RunValidator(validators[req.prop], req.value)

\* C1: a PATCH {prop, v} on a prop registered with a validator, for which the
\* validator returns Err, is answered with an error, leaves every prop unchanged
\* and sends no reload signal.
C1_ValidatorGate ==
    [][(<<http_req, http_resp>>' # <<http_req, http_resp>> /\ IsRejectedPatch(http_req'))
         => /\ props' = props
            /\ reload_signal' = reload_signal
            /\ http_resp'.status >= 400
            /\ ~http_resp'.ok]_vars

\* a PATCH that passed authentication and was turned down by the validator of a
\* prop that an earlier PATCH had changed
C1_Witness ==
    /\ IsRejectedPatch(http_req)
    /\ Authorized("PATCH", http_req.header) = 200
    /\ http_req.prop = PROP_NEXT_SESSION_BAND
    /\ http_req.value = JNum(21998)
    /\ props[PROP_NEXT_SESSION_BAND] = JNum(8000)
    /\ http_resp.status = 400

----------------------------------------------------------------------------
\* The SPDU of the last process_message call.
LastIsSpdu == last_pm.n > 0 /\ last_pm.line.kind = "spdu"

\* no frame made of the last line is in the fan-out channel or beyond it
NoFrameOfLastLine ==
    \A i \in DOMAIN (dequeued \o cff_rx) : (dequeued \o cff_rx)[i].seq # last_pm.n

\* C2: whenever start_session ran with a non-zero next_session_band prop f and
\* started a session, the session's band contains the lowest known frequency >= f,
\* whatever the last end reason, the method and the schedule.
C2_UserOverrideWins ==
    (last_start.status = "ok" /\ IsU64(last_start.prop) /\ last_start.prop.n # 0)
        => \E i \in DOMAIN last_start.bands :
              last_start.bands[i]
                = first_freq_above_eq(last_start.all_freqs, last_start.prop.n % MaxU16)

\* a session ended by its schedule, the user asked for 8000 kHz, and the next
\* session listens to the band of the schedule's 6529 kHz
C2_ScheduleReplacesOverride ==
    /\ last_start.status = "ok"
    /\ last_start.reason = "SessionEnd"
    /\ last_start.prop = JNum(8000)
    /\ last_start.scheduled
    /\ last_start.bands = <<6529, 6532>>
    /\ last_start.requested = 6529

\* C3: a decoder child is alive only while the orchestrator is Running, and it is
\* then the one child of the current session: leaving Running by any arm ends the
\* session, which kills the child and waits for it, before anything else happens.
C3_OneChildAlive ==
    /\ Cardinality(alive) <= 1
    /\ pc = "Running" => alive = {session.child}
    /\ pc # "Running" => alive = {}

\* the second session runs and the child of the first is gone
C3_Witness ==
    /\ pc = "Running"
    /\ spawned = 2
    /\ alive = {2}
    /\ last_start.reason \in {"ReadEOF", "SessionTimeout", "ReadError", "UserAPIControl"}

\* C4: once a SIGINT has been delivered while the orchestrator was Running, in the
\* failed-start wait or in the intermission, start_session is not called again.
C4_ShutdownIsTerminal == ~start_after_interrupt

\* a session started after the SIGINT, which is still pending
C4_StartedAfterInterrupt ==
    /\ start_after_interrupt
    /\ interrupted = "Running"
    /\ interrupt_signal
    /\ pc = "Running"
    /\ spawned = 2

\* ModuleManager::start and both auxiliary tasks have returned
AllDone == pc = "Done" /\ http_pc = "done" /\ proc_pc = "done"

\* C5: after the cancel token fires, the HTTP task and the processor task complete
\* and ModuleManager::start returns; the processor does not complete while the
\* batcher task it holds is still to run.
C5_TerminationOnCancel ==
    /\ cancel_token ~> AllDone
    /\ [](proc_pc = "done" => batcher # "sleeping")

\* everything returned, and a batch handed to the batcher before the cancellation
\* was indexed
C5_Witness ==
    /\ AllDone
    /\ cancel_token
    /\ batcher = "finished"
    /\ frames_batch = <<>>
    /\ es_out # <<>>

\* C6: a line for which process_message returns an error sends no frame and leaves
\* the orchestrator Running with the same session and the same child.
C6_FrameErrorsAreSkipped ==
    [][(lines_read' = lines_read + 1 /\ last_pm'.result # "Ok")
          => /\ pc = "Running" /\ pc' = "Running"
             /\ session' = session
             /\ alive' = alive
             /\ should_run' = should_run
             /\ reason' = reason
             /\ cff_rx' = cff_rx
             /\ dequeued' = dequeued]_vars

\* after a line that was rejected as out of date, the next line of the same
\* session was made a frame
C6_Witness ==
    /\ last_pm.n = 2
    /\ last_pm.prev_result = "SystemTableOutOfDate"
    /\ last_pm.result = "Ok"
    /\ pc = "Running"
    /\ alive = {1}
    /\ cff_rx = <<CFF(2, 1)>>
    /\ dequeued = <<>>

\* C7: an SPDU with a systable_version above the loaded table's never
\* yields a frame, and it is answered with the out-of-date error whenever its
\* arrival time is representable (an unrepresentable one is reported first).
C7_OutOfDateRejected ==
    (LastIsSpdu /\ last_pm.line.ver > SystableVersion)
        => /\ last_pm.result # "Ok"
           /\ NoFrameOfLastLine
           /\ last_pm.events = <<>>
           /\ last_pm.line.ts_ok => last_pm.result = "SystemTableOutOfDate"
           /\ ~last_pm.line.ts_ok => last_pm.result = "InvalidArrivalTime"

C7_Witness ==
    /\ LastIsSpdu
    /\ last_pm.line.ver > SystableVersion
    /\ last_pm.line.ts_ok
    /\ last_pm.result = "SystemTableOutOfDate"
    /\ last_pm.n = 2
    /\ last_pm.prev_result = "Ok"

\* every such SPDU is answered with the out-of-date error, whatever its arrival time
C7_AlwaysOutOfDateError ==
    (LastIsSpdu /\ last_pm.line.ver > SystableVersion)
        => last_pm.result = "SystemTableOutOfDate" /\ NoFrameOfLastLine

\* the same accepted SPDU was applied by the last two process_message calls
SameSpduTwice ==
    /\ LastIsSpdu
    /\ last_pm.result = "Ok"
    /\ last_pm.prev_result = "Ok"
    /\ last_pm.prev_line = last_pm.line

ListsEachStationOnce(gs) == \A i, j \in DOMAIN gs : gs[i].id = gs[j].id => i = j

\* C8: the second of two successive applications of one SPDU emits no
\* GroundStationChangeEvent, provided the SPDU lists each station once and less
\* than stale_timeout seconds passed between the two applications.
C8_SecondApplicationSilent ==
    (/\ SameSpduTwice
     /\ ListsEachStationOnce(last_pm.line.gs)
     /\ last_pm.at - last_pm.prev_at < props[PROP_STALE_TIMEOUT_SEC].n)
        => last_pm.events = <<>>

C8_Witness ==
    /\ SameSpduTwice
    /\ last_pm.line.gs = <<GS(1, {10027}), GS(2, {10500})>>
    /\ last_pm.at = last_pm.prev_at + 1
    /\ props[PROP_STALE_TIMEOUT_SEC] = JNum(DEFAULT_STALE_TIMEOUT_SECS)
    /\ last_pm.events = <<>>
    /\ \A i \in DOMAIN stations : stations[i].active # {}

\* the second application emits none, for every SPDU and every stale_timeout
C8_SecondApplicationAlwaysSilent == SameSpduTwice => last_pm.events = <<>>

\* x is inside the band or within max_dist_khz of one of its edges
InOrNearBand(x, band, max_dist_khz) ==
    band # <<>> /\ x + max_dist_khz >= band[1] /\ x <= band[Len(band)] + max_dist_khz

\* C9: for an accepted SPDU, one SessionUpdate is sent if only_use_active or
\* use_airframes_gs is on and a frequency that entered or left a station's set is
\* inside the listening band or within max_dist_khz of its edges; none otherwise.
C9_SpduFeedback ==
    (LastIsSpdu /\ last_pm.result = "Ok")
        => LET flags == \/ as_bool(props[PROP_ONLY_USE_ACTIVE], FALSE)
                        \/ as_bool(props[PROP_USE_AIRFRAMES_GS], FALSE)
               max_dist_khz ==
                   get_max_dist_khz_by_sample_rate(as_u64(props[PROP_SAMPLE_RATE], 0))
               near == \E i \in DOMAIN last_pm.events :
                          \E x \in SymDiff(last_pm.events[i].old, last_pm.events[i].new) :
                              InOrNearBand(x, last_pm.band, max_dist_khz)
           IN  last_pm.signals = IF flags /\ near THEN 1 ELSE 0

\* 9600 kHz entered a station's set, 427 kHz under the lower edge of the band
\* 10027..10081 with max_dist_khz = 460, and no SessionUpdate was sent
C9_NoSignalBelowBand ==
    /\ LastIsSpdu
    /\ last_pm.result = "Ok"
    /\ as_bool(props[PROP_ONLY_USE_ACTIVE], FALSE)
    /\ last_pm.band = ListeningBand
    /\ last_pm.line.gs = <<GS(1, {9600})>>
    /\ Len(last_pm.events) = 1
    /\ last_pm.events[1].new = {9600}
    /\ last_pm.signals = 0

\* C10: the frames dequeued by the processor followed by those waiting in the
\* fan-out channel are in the order of the decoder lines they were made of, each
\* at most once.
C10_FramesInOrder ==
    LET frames == dequeued \o cff_rx
    IN  \A i, j \in DOMAIN frames : i < j => frames[i].seq < frames[j].seq

\* frames of two sessions: the first dequeued, the second waiting
C10_Witness ==
    /\ dequeued = <<CFF(1, 1)>>
    /\ cff_rx = <<CFF(2, 2)>>

----------------------------------------------------------------------------
\* what swarm_out holds, each frame once
NoDuplicates(q) == \A i, j \in DOMAIN q : q[i] = q[j] => i = j

\* C11: when write_all on the swarm stream fails with BrokenPipe and the one
\* reconnect attempt succeeds, the frame is sent on the new stream; it is dropped
\* only if the reconnect fails; no frame is written twice.
C11_SwarmReconnect ==
    /\ NoDuplicates(swarm_out)
    /\ last_write = "broken_reconnect"
         => /\ swarm_stream = "up"
            /\ swarm_out # <<>>
            /\ swarm_out[Len(swarm_out)] = dequeued[Len(dequeued)]

\* frames 1 and 2: 1 was written, the write of 2 broke the pipe, the reconnect
\* succeeded, and 2 is not on the stream
C11_FrameLostOnReconnect ==
    /\ last_write = "broken_reconnect"
    /\ swarm_stream = "up"
    /\ dequeued = <<CFF(1, 1), CFF(2, 1)>>
    /\ swarm_out = <<CFF(1, 1)>>

\* C12: a non-empty batch has a pending batcher task that will hand it to
\* bulk_index, and once the processor has returned every frame it pushed has been
\* handed to bulk_index.
C12_BatchHasPendingFlush ==
    /\ frames_batch # <<>> => batcher = "sleeping"
    /\ proc_pc = "done" => frames_batch = <<>>

\* bulk_index panicked on the first batch; the second frame joined a batch that no
\* task will flush, and the processor returned
C12_BatchStuckAfterPanic ==
    /\ es_url
    /\ batcher = "panicked"
    /\ frames_batch = <<CFF(1, 1), CFF(2, 1)>>
    /\ es_out = <<>>
    /\ proc_pc = "done"

\* C13: with api_token set, a GET, PATCH or DELETE whose Authorization header is
\* missing or differs from the token is rejected: it returns no settings data,
\* and no reload or end-session signal is sent.
C13_Authentication ==
    (api_token # "" /\ http_req.method # "none" /\ http_req.header # api_token)
        => /\ http_resp.status >= 400
           /\ ~http_resp.ok
           /\ ~http_resp.body

\* an unauthenticated GET was answered with the settings
C13_UnauthenticatedGet ==
    /\ api_token = "tok"
    /\ http_req.method = "GET"
    /\ http_req.header = ""
    /\ http_resp = Resp(200, TRUE, TRUE)

\* C14: with disable_api_control set, every PATCH /api/settings/ and every
\* DELETE /api/session is refused with 417 and sends no signal.
C14_ApiControlDisabled ==
    (disable_api_control /\ http_req.method \in {"PATCH", "DELETE"})
        => /\ http_resp.status = 417
           /\ reload_signal = 0
           /\ end_session_signal = <<>>

\* with API control disabled a DELETE was accepted and its end-session signal
\* is queued
C14_DeleteEndsSession ==
    /\ disable_api_control
    /\ http_req.method = "DELETE"
    /\ http_resp = Resp(200, TRUE, FALSE)
    /\ end_session_signal = <<"UserAPIControl">>

\* a PATCH the handler accepts: the prop exists, the kinds agree and the
\* validator, if there is one, returns Ok
IsAcceptedPatch(req) ==
    /\ req.prop \in DOMAIN props
    /\ props[req.prop].k = req.value.k
    /\ req.value.k \in {"Bool", "Number", "String", "Array"}
    /\ req.prop \in DOMAIN validators => RunValidator(validators[req.prop], req.value)

C16_ListeningBandReadOnly ==
    /\ [](spawned = 0 => props[PROP_LISTENING_BAND] = JArr(<<>>))
    /\ [](pc = "Running" => props[PROP_LISTENING_BAND] = JArr(session.band))
    /\ [][props'[PROP_LISTENING_BAND] # props[PROP_LISTENING_BAND]
            => /\ pc = "Starting" /\ pc' = "Running"
               /\ last_start'.status = "ok"
               /\ props'[PROP_LISTENING_BAND] = JArr(last_start'.bands)]_vars
    /\ [][(/\ <<http_req, http_resp>>' # <<http_req, http_resp>>
           /\ http_req'.method = "PATCH"
           /\ http_req'.prop = PROP_LISTENING_BAND)
            => ~http_resp'.ok /\ http_resp'.status = 400]_vars

\* a PATCH of listening_band to [8921] was turned down during the second session,
\* which listens elsewhere
C16_Witness ==
    /\ http_req = Req("PATCH", "", PROP_LISTENING_BAND, JArr(<<8921>>))
    /\ http_resp.status = 400
    /\ pc = "Running"
    /\ spawned = 2
    /\ session.band # <<8921>>
    /\ props[PROP_LISTENING_BAND] = JArr(session.band)

\* C17: every band that freq_bands_by_sample_rate makes of a sorted, de-duplicated
\* list is strictly ascending and no wider than floor(sample_rate * 0.9 / 1000).
C17_BandWidth ==
    fb_bands.computed
        => \A b \in fb_bands.bands :
              /\ b.band # <<>>
              /\ \A i \in 1..(Len(b.band) - 1) : b.band[i] < b.band[i + 1]
              /\ b.band[Len(b.band)] - b.band[1] <= (fb_sample_rate * 9) \div 10000

\* at 512000 samples per second 2998..3458 is exactly 460 kHz wide and 3459 starts
\* the next band
C17_Witness ==
    /\ fb_bands.computed
    /\ fb_sample_rate = 512000
    /\ fb_freqs = <<2998, 3050, 3458, 3459>>
    /\ {b.band : b \in fb_bands.bands} = {<<2998, 3050, 3458>>, <<3459>>}

\* C18: a running session has a non-empty listening band, in the session and in
\* the listening_band prop.
C18_ListeningBandNonEmpty ==
    pc = "Running" => /\ session.band # <<>>
                      /\ props[PROP_LISTENING_BAND] # JArr(<<>>)

\* the second AoA session: start_session found the next_session_band prop emptied
\* by the first one and returned a session that listens to nothing
C18_AoaSecondSessionEmpty ==
    /\ pc = "Running"
    /\ spawned = 2
    /\ last_start.status = "ok"
    /\ last_start.prop = JArr(<<>>)
    /\ session.band = <<>>
    /\ props[PROP_LISTENING_BAND] = JArr(<<>>)

\* C19: with a swarm URL configured no dequeued frame is passed to
\* StateDB::update, whether or not the swarm connection is established.
C19_NoStateDbInSwarmMode == swarm_url => db_out = <<>>

\* the initial connect never succeeded and the first frame went to the state DB
C19_FrameInStateDb ==
    /\ swarm_url
    /\ swarm_stream = "none"
    /\ dequeued = <<CFF(1, 1)>>
    /\ db_out = <<CFF(1, 1)>>
    /\ swarm_out = <<>>

\* C20: the reason a session ends with states its cause: SessionTimeout for an
\* expired deadline, ReadError for a read error other than the scheduled end,
\* ReadEOF for a 0-byte read, in the first session and in every later one.
C20_EndReasonIsCause ==
    /\ last_end.cause = "Timeout" => last_end.reason = "SessionTimeout"
    /\ last_end.cause \in {"io", "other_no_inner"} => last_end.reason = "ReadError"
    /\ last_end.cause = "ReadEOF" => last_end.reason = "ReadEOF"

\* the second session ended on a read error and was given the first one's ReadEOF
C20_StaleReason ==
    /\ last_end.cause = "io"
    /\ last_end.child = 2
    /\ last_end.reason = "ReadEOF"
    /\ last_start.reason = "ReadEOF"

----------------------------------------------------------------------------
\* the last start_session call had a schedule with an entry and found the
\* next_session_band prop at 0
ScheduledStart ==
    /\ last_start.status = "ok"
    /\ last_start.scheduled
    /\ last_start.entries # <<>>
    /\ last_start.prop = JNum(0)

\* C22: with a schedule configured and the next_session_band prop at 0, the
\* session that start_session returns targets the frequency of the schedule's
\* earliest future entry if and only if the prior session ended with SessionEnd
\* or this is the very first start.
C22_ScheduleTarget ==
    ScheduledStart =>
        (last_start.requested = last_start.entries[1][2]
            <=> last_start.reason \in {"SessionEnd", "None"})

\* after a ReadEOF, with two entries of different frequencies, the session
\* targets the frequency of the latest entry
C22_LatestEntryAfterEOF ==
    /\ ScheduledStart
    /\ Len(last_start.entries) = 2
    /\ last_start.entries[1][2] # last_start.entries[2][2]
    /\ last_start.reason = "ReadEOF"
    /\ last_start.requested = last_start.entries[2][2]
    /\ pc = "Running"
    /\ \E i \in DOMAIN session.band : session.band[i] = last_start.entries[2][2]

----------------------------------------------------------------------------
\* the running session was started while session_method was static
StartedStatic ==
    /\ pc = "Running"
    /\ last_start.status = "ok"
    /\ last_start.method = JStr("static")

----------------------------------------------------------------------------
\* the last start_session call was made under static after a session had ended,
\* with no schedule and the next_session_band prop at 0
StaticRestart ==
    /\ last_start.status = "ok"
    /\ last_start.method = JStr("static")
    /\ ~last_start.scheduled
    /\ last_start.prop = JNum(0)
    /\ last_start.prev_band.k = "Array"
    /\ last_start.prev_band.a # <<>>

\* C24: under session_method static with no user override and no schedule, when
\* a session has ended and the frequency pool is unchanged, the next session
\* listens on the same band as the session that ended.
C24_StaticBandKept ==
    StaticRestart => last_start.bands = last_start.prev_band.a

\* after a ReadEOF the static session moves from the band of 8921 to the band of
\* the lowest frequency of the pool
C24_StaticBandLost ==
    /\ StaticRestart
    /\ last_start.reason = "ReadEOF"
    /\ last_start.prev_band.a = <<8921>>
    /\ last_start.requested = 0
    /\ pc = "Running"
    /\ session.band = <<2998>>

----------------------------------------------------------------------------
\* the heads of the bands the last start_session call chose from, ascending
HeadsOf(all_freqs) ==
    SortSet({b.band[1] : b \in freq_bands_by_sample_rate(
                 all_freqs, nearest_sample_rate(as_u64(props[PROP_SAMPLE_RATE], 0)))})

BandHeads == HeadsOf(last_start.all_freqs)

IndexOf(q, x) == CHOOSE i \in DOMAIN q : q[i] = x

\* the heads that n successive rotations from head select
RECURSIVE Rotations(_, _, _, _)
Rotations(method, candidates, head, n) ==
    IF n = 0 THEN <<>>
    ELSE LET next == rotate(method, candidates, position_ge(candidates, head), 0)
         IN  <<next>> \o Rotations(method, candidates, next, n - 1)

\* the last start_session call was made under inc or dec with the
\* next_session_band prop at 0, and the head of the current band is a candidate
RotatingStart ==
    /\ last_start.status = "ok"
    /\ last_start.method \in {JStr("inc"), JStr("dec")}
    /\ last_start.prop = JNum(0)
    /\ last_start.reason # "SessionUpdate"
    /\ ~last_start.scheduled
    /\ last_start.prev_band.k = "Array"
    /\ last_start.prev_band.a # <<>>
    /\ \E i \in DOMAIN BandHeads : BandHeads[i] = last_start.prev_band.a[1]

\* C25: over the band heads sorted ascending, inc selects the next higher head
\* and wraps from the highest to the lowest, dec selects the next lower head and
\* wraps from the lowest to the highest; as many rotations as there are bands
\* visit every band.
C25_IncDecRotate ==
    RotatingStart =>
        LET n == Len(BandHeads)
            i == IndexOf(BandHeads, last_start.prev_band.a[1])
        IN  /\ last_start.method = JStr("inc") =>
                  last_start.requested = BandHeads[IF i = n THEN 1 ELSE i + 1]
            /\ last_start.method = JStr("dec") =>
                  last_start.requested = BandHeads[IF i = 1 THEN n ELSE i - 1]
            /\ last_start.bands[1] = last_start.requested
            /\ Range(Rotations(last_start.method.s, BandHeads,
                                last_start.prev_band.a[1], n)) = Range(BandHeads)

\* inc has wrapped from the highest of four heads to the lowest
C25_Witness ==
    /\ RotatingStart
    /\ last_start.method = JStr("inc")
    /\ Len(BandHeads) = 4
    /\ last_start.prev_band.a[1] = BandHeads[4]
    /\ pc = "Running"
    /\ session.band[1] = BandHeads[1]

----------------------------------------------------------------------------
\* the orchestrator is about to call start_session under random with no
\* schedule and the next_session_band prop at 0
RandomStart ==
    /\ pc = "Starting"
    /\ props[PROP_SESSION_METHOD] = JStr("random")
    /\ props[PROP_NEXT_SESSION_BAND] = JNum(0)
    /\ reason # "SessionUpdate"
    /\ schedule = <<>>

\* the band heads left after the current head and the previous random pick are
\* filtered out, when airframes.io answers af
RemainingHeads(af) ==
    LET heads == Range(HeadsOf(start_session(reason, 0, af, TRUE).all_freqs))
        lb    == props[PROP_LISTENING_BAND]
    IN  IF heads # {} /\ lb.k = "Array" /\ lb.a # <<>>
        THEN heads \ {lb.a[1], last_random_freq_band}
        ELSE heads

\* C26: under random with no override, whenever some band head remains after
\* filtering, start_session selects a head that is neither the head of the
\* current band nor the previous random pick, and every remaining head is
\* selected by some draw.
C26_RandomExclusion ==
    RandomStart =>
        \A af \in AfAnswers :
            RemainingHeads(af) # {} =>
                /\ \A rnd \in 0..MaxRnd :
                       LET r == start_session(reason, rnd, af, TRUE)
                       IN  r.status # "norun" =>
                               r.status = "ok" /\ r.requested \in RemainingHeads(af)
                /\ \A h \in RemainingHeads(af) :
                       \E rnd \in 0..MaxRnd :
                           LET r == start_session(reason, rnd, af, TRUE)
                           IN  r.status = "ok" /\ r.requested = h

\* before the third start two heads remain, the lower one is drawn and no draw
\* selects the higher one
C26_HighestNeverDrawn ==
    /\ RandomStart
    /\ last_start.status = "ok"
    /\ last_start.method = JStr("random")
    /\ last_random_freq_band # 0
    /\ LET pool == RemainingHeads(NoAirframes)
           Drawn(h) == \E rnd \in 0..MaxRnd :
                          LET r == start_session(reason, rnd, NoAirframes, TRUE)
                          IN  r.status = "ok" /\ r.requested = h
       IN  /\ Cardinality(pool) = 2
           /\ \E lo, hi \in pool : lo < hi /\ Drawn(lo) /\ ~Drawn(hi)

----------------------------------------------------------------------------
\* C27: band selection is never fatal: whatever the frequency pool, the session
\* method and the current band, start_session returns a session or an error
\* after which the orchestrator waits and retries; it never panics.
C27_SelectionNeverFatal ==
    /\ pc # "Panicked"
    /\ last_start.status \in {"none", "ok", "err"}
    /\ last_start.status = "err" => reason = "ProcessStartError"

\* under random one band head remained after filtering and start_session
\* panicked
C27_OneCandidatePanics ==
    /\ pc = "Panicked"
    /\ last_start.status = "panic"
    /\ last_start.method = JStr("random")
    /\ last_start.prop = JNum(0)
    /\ last_start.prev_band.a # <<>>
    /\ Cardinality(Range(BandHeads)
                     \ {last_start.prev_band.a[1], last_start.prev_random}) = 1

----------------------------------------------------------------------------
\* C28: a failed start_session (band selection error or spawn failure) sends the
\* orchestrator to BackoffWait with no decoder child alive; the wait ends with
\* the next call of start_session, made with last reason ProcessStartError, and
\* only an interrupt received during the wait leaves the loop.
C28_BackoffAfterStartFailure ==
    /\ [](pc = "BackoffWait" =>
             /\ alive = {}
             /\ session = NoSession
             /\ should_run
             /\ reason = "ProcessStartError"
             /\ last_start.status = "err")
    /\ [][/\ (last_start' # last_start /\ last_start'.status = "err") =>
                pc' = "BackoffWait"
          /\ pc = "BackoffWait" =>
                /\ pc' \in {"BackoffWait", "Starting", "Joining"}
                /\ pc' = "Starting" => reason' = "ProcessStartError"
                /\ pc' = "Joining" => interrupt_signal /\ ~interrupt_signal'
          /\ (last_start' # last_start /\ last_start.status = "err") =>
                last_start'.reason = "ProcessStartError"]_vars
    /\ (pc = "BackoffWait") ~> (pc \in {"Starting", "Joining"})

\* two failed starts in a row: the second call was made with ProcessStartError
\* and the orchestrator waits again, with no child
C28_Witness ==
    /\ pc = "BackoffWait"
    /\ last_start.status = "err"
    /\ last_start.err = "SpawnFailed"
    /\ last_start.reason = "ProcessStartError"
    /\ spawned = 0
    /\ alive = {}

----------------------------------------------------------------------------
\* the value the reload arm gives a timer whose prop holds v
Reloaded(v, default) == IF v.k = "Number" /\ v.n >= 0 THEN v.n ELSE default

\* C29: handling a reload signal in Running never ends the session (same
\* session, same child alive, no exit of the session loop, end reason
\* unchanged), and afterwards the session timeout and the intermission equal
\* the session_timeout_sec and session_intermission_sec props, or their
\* defaults when the prop is not an unsigned integer.
C29_ReloadKeepsSession ==
    [][reload_signal' < reload_signal =>
          /\ pc = "Running" /\ pc' = "Running"
          /\ session' = session
          /\ alive' = alive
          /\ session.child \in alive'
          /\ reason' = reason
          /\ should_run' = should_run
          /\ last_end' = last_end
          /\ session_timeout_secs' =
                Reloaded(props'[PROP_SESSION_TIMEOUT_SEC], DEFAULT_SESSION_TIMEOUT_SECS)
          /\ session_intermission_secs' =
                Reloaded(props'[PROP_SESSION_INTERMISSION_SEC],
                         DEFAULT_SESSION_INTERMISSION_SECS)]_vars

\* the reload arm has taken the timeout from its prop and the default for the
\* intermission, whose prop is no u64, and the session is still running
C29_Witness ==
    /\ pc = "Running"
    /\ session.child \in alive
    /\ reload_signal = 0
    /\ props[PROP_SESSION_TIMEOUT_SEC] = JNum(1)
    /\ session_timeout_secs = 1
    /\ props[PROP_SESSION_INTERMISSION_SEC] = JNum(-1)
    /\ session_intermission_secs = DEFAULT_SESSION_INTERMISSION_SECS
    /\ schedule = GoodSchedule

----------------------------------------------------------------------------
\* C30: once an end-session signal (SessionUpdate or UserAPIControl) is queued,
\* the orchestrator processes at most one further decoder line before it leaves
\* Running, whatever the interleaving of ready line reads and the ready signal.
C30_BoundedOverrun ==
    last_pm.after_signal <= 1

\* two lines were processed while the signal was queued, and the session is
\* still running with the signal still queued
C30_TwoLinesAfterSignal ==
    /\ pc = "Running"
    /\ end_session_signal # <<>>
    /\ last_pm.child = session.child
    /\ last_pm.after_signal = 2

----------------------------------------------------------------------------
\* C21: a session created with a scheduled end in the future ends: it is not
\* ended by the schedule before that instant, the schedule ends it with reason
\* SessionEnd, and unless another cause ends it first it is ended once the
\* instant is reached, also while lines arrive and also under static, where an
\* expired read deadline does not end it.
C21_ScheduledEnd ==
    /\ [](pc = "Running" /\ last_start.scheduled =>
             /\ session.session_end
             /\ session.end_at >= last_start.entries[1][1]
             /\ session.end_at % SecondsPerDay = last_start.entries[1][1] % SecondsPerDay)
    /\ [](last_end.cause = "scheduled_end" => last_end.reason = "SessionEnd")
    /\ [][(last_end' # last_end /\ last_end'.cause = "scheduled_end") =>
              /\ session.session_end
              /\ now > session.end_at
              /\ reason' = "SessionEnd"]_vars
    /\ \A c \in 1..MaxSessions :
          (pc = "Running" /\ session.child = c /\ session.session_end)
              ~> (last_end.child = c)

\* a static session read a line after its scheduled end had passed, had a read
\* deadline expire, and was then ended by the schedule
C21_Witness ==
    /\ last_end.cause = "scheduled_end"
    /\ last_end.reason = "SessionEnd"
    /\ last_start.method = JStr("static")
    /\ last_pm.child = last_end.child
    /\ last_pm.at = last_end.at
    /\ expired > 0
    /\ pc = "Starting"

----------------------------------------------------------------------------
\* a session was started after a SessionUpdate end while the next_session_band
\* prop held 0
StartedAfterUpdate ==
    /\ last_start.reason = "SessionUpdate"
    /\ last_start.prop = JNum(0)
    /\ last_start.status = "ok"

\* C31: when a session ended with reason SessionUpdate and the next_session_band
\* prop is 0, the band of the next session contains the lowest known frequency
\* that is >= the last_req_session_band recorded at the previous session start.
C31_SessionUpdateReusesRequest ==
    StartedAfterUpdate =>
        \E i \in DOMAIN last_start.bands :
            last_start.bands[i] = first_freq_above_eq(last_start.all_freqs, last_start.prev_req)

\* under "inc" the first session recorded 0 as its request and listened on the
\* lowest band; after the SessionUpdate the rotation moved to another band, which
\* does not hold the lowest known frequency
C31_UpdateRotatesAway ==
    /\ StartedAfterUpdate
    /\ last_start.method = JStr("inc")
    /\ last_start.prev_req = 0
    /\ last_start.prev_band.a # <<>>
    /\ last_start.prev_band.a[1] = last_start.all_freqs[1]
    /\ \A i \in DOMAIN last_start.bands : last_start.bands[i] # last_start.all_freqs[1]

----------------------------------------------------------------------------
\* the documented values of session_method
MethodGrammar(v) ==
    /\ v.k = "String"
    /\ v.t = <<>>
    /\ v.s \in {"random", "static", "inc", "dec", "track:1", "track:2"}

\* an authorized PATCH of session_method has been answered
PatchedMethod ==
    /\ http_req.method = "PATCH"
    /\ http_req.prop = PROP_SESSION_METHOD
    /\ http_resp.status \in {200, 400}

\* C32: a PATCH of session_method is accepted exactly when the value is one of
\* the strings random, static, inc, dec or track:<positive-integer>; any other
\* value and any non-string is turned down.
C32_SessionMethodValidator ==
    PatchedMethod => (http_resp.status = 200 <=> MethodGrammar(http_req.value))

\* the validator turned down "track:1"
C32_TrackRejected ==
    /\ PatchedMethod
    /\ http_req.value = JStr("track:1")
    /\ http_resp.status = 400
    /\ props[PROP_SESSION_METHOD] # JStr("track:1")

----------------------------------------------------------------------------
\* a segment time=HH:MM,band_contains=F with HH in 0..23 (one or two digits), MM
\* in 00..59 and F of four or five digits
DocumentedSegment(tok) ==
    /\ tok.shape
    /\ Len(tok.hh) \in {1, 2} /\ DigitsVal(tok.hh) <= 23
    /\ Len(tok.mm) = 2 /\ DigitsVal(tok.mm) <= 59
    /\ Len(tok.f) \in {4, 5}

\* the next instant, from local time t on, at which the clock shows the time of tok
NextInstant(tok, t) ==
    LET at == 3600 * DigitsVal(tok.hh) + 60 * DigitsVal(tok.mm)
    IN  IF at < t THEN at + SecondsPerDay ELSE at

\* C33: a schedule made only of segments time=HH:MM,band_contains=F (HH 00..23,
\* MM 00..59, F of 4 or 5 digits) is accepted, and the result holds, for every
\* segment, its instant within the next 24 hours paired with an F given for that
\* instant, sorted earliest first with one entry per instant; a schedule with
\* any other segment is refused.
C33_ScheduleParser ==
    ps_schedule.computed =>
        IF \A i \in DOMAIN ps_value : DocumentedSegment(ps_value[i])
        THEN /\ ps_schedule.ok
             /\ \A k \in DOMAIN ps_schedule.entries :
                    /\ ps_schedule.entries[k][1] >= ps_now
                    /\ ps_schedule.entries[k][1] < ps_now + SecondsPerDay
                    /\ \E i \in DOMAIN ps_value :
                          ps_schedule.entries[k]
                            = <<NextInstant(ps_value[i], ps_now), DigitsVal(ps_value[i].f)>>
             /\ \A i \in DOMAIN ps_value : \E k \in DOMAIN ps_schedule.entries :
                    ps_schedule.entries[k][1] = NextInstant(ps_value[i], ps_now)
             /\ \A k \in 1..(Len(ps_schedule.entries) - 1) :
                    ps_schedule.entries[k][1] < ps_schedule.entries[k + 1][1]
        ELSE ~ps_schedule.ok

\* "time=00:00,band_contains=6529" is refused
C33_MidnightRefused ==
    /\ ps_schedule.computed
    /\ ps_value = <<Tok(<<0, 0>>, <<0, 0>>, <<6, 5, 2, 9>>)>>
    /\ ~ps_schedule.ok

----------------------------------------------------------------------------
\* the bands are the greedy left-to-right partition of freqs: every band is a run
\* SubSeq(freqs, i, j) that stays within max_dist_khz of its first frequency and
\* that the next frequency would overstep, and every frequency is in one band
GreedyPartition(bands, freqs, max_dist_khz) ==
    /\ \A b \in bands : \E i, j \in DOMAIN freqs :
          /\ i <= j
          /\ b.band = SubSeq(freqs, i, j)
          /\ freqs[j] - freqs[i] <= max_dist_khz
          /\ j < Len(freqs) => freqs[j + 1] - freqs[i] > max_dist_khz
    /\ \A k \in DOMAIN freqs :
          Cardinality({b \in bands : \E i \in DOMAIN b.band : b.band[i] = freqs[k]}) = 1

\* "<first>-<last>", or "<only>" for a band of one frequency
DocumentedLabel(band) == IF Len(band) = 1 THEN <<band[1]>> ELSE <<band[1], band[Len(band)]>>

FbMaxDist == get_max_dist_khz_by_sample_rate(fb_sample_rate) % MaxU16

\* the statement as given: every band is stored under "<first>-<last>" or "<only>"
C34_EveryLabelFirstLast ==
    fb_bands.computed =>
        /\ GreedyPartition(fb_bands.bands, fb_freqs, FbMaxDist)
        /\ \A b \in fb_bands.bands : b.label = DocumentedLabel(b.band)

\* C34: for every sorted, de-duplicated frequency list the bands returned by
\* freq_bands_by_sample_rate are the greedy left-to-right partition (disjoint,
\* holding every frequency once), each stored under "<first>-<last>" or "<only>",
\* except that a band of several frequencies opening with 0 is stored under "<last>".
C34_GreedyBandPacking ==
    fb_bands.computed =>
        /\ GreedyPartition(fb_bands.bands, fb_freqs, FbMaxDist)
        /\ \A b \in fb_bands.bands :
              b.label = IF b.band[1] = 0 /\ Len(b.band) > 1
                        THEN <<b.band[Len(b.band)]>>
                        ELSE DocumentedLabel(b.band)

\* at 512 kHz the list 2998, 3050, 3458, 3459, 65535 was packed into three bands,
\* the first closed by 3459, which is 461 kHz above 2998
C34_Witness ==
    /\ fb_bands.computed
    /\ fb_sample_rate = 512000
    /\ fb_freqs = <<2998, 3050, 3458, 3459, 65535>>
    /\ fb_bands.bands = {[label |-> <<2998, 3458>>, band |-> <<2998, 3050, 3458>>],
                         [label |-> <<3459>>, band |-> <<3459>>],
                         [label |-> <<65535>>, band |-> <<65535>>]}

----------------------------------------------------------------------------
\* this step is process_message on an SPDU of a newer system table whose arrival
\* time is representable
ReadsOutOfDateSpdu ==
    /\ lines_read' = lines_read + 1
    /\ last_pm'.line.kind = "spdu"
    /\ last_pm'.line.ts_ok
    /\ last_pm'.line.ver > SystableVersion

\* C35: process_message rejects an SPDU that is out of date, and leaves the
\* ground-station registry, the props, the end-session and reload signal
\* channels and the change-event channel exactly as they were.
C35_RejectedSpduChangesNothing ==
    [][ReadsOutOfDateSpdu =>
         /\ last_pm'.result = "SystemTableOutOfDate"
         /\ UNCHANGED <<stations, props, end_session_signal, reload_signal,
                        change_event_rx>>]_vars

\* an out-of-date SPDU naming station 1 has been rejected while the registry held
\* stations and change events were queued
C35_Witness ==
    /\ last_pm.result = "SystemTableOutOfDate"
    /\ last_pm.line.gs = <<GS(1, {10027})>>
    /\ stations # <<>>
    /\ change_event_rx # <<>>

----------------------------------------------------------------------------
\* a step of the orchestrator, the processor, the batcher or the HTTP task
TaskStep == OrchestratorStep \/ ProcessorStep \/ BatcherStep \/ HttpCancelled

\* a task waits for another one: in a send on a full channel, for the batch
\* mutex, for the batcher task or for the spawned tasks
TaskWaits ==
    \/ pc \in {"SendEvent", "SendFrame", "Joining"}
    \/ proc_pc \in {"lock_batch", "await_batcher"}

\* C36: no reachable state is a deadlock among the orchestrator, the processor,
\* the ES batcher and the HTTP handlers: while a task waits for another, some
\* task can take a step, and every wait ends: a send on a full change-event or
\* CFF channel returns, the batch mutex is obtained, and the join at shutdown
\* completes.
C36_DeadlockFreedom ==
    /\ [](TaskWaits => ENABLED TaskStep)
    /\ (pc \in {"SendEvent", "SendFrame"}) ~> (pc = "Running")
    /\ (proc_pc = "lock_batch") ~> (proc_pc = "loop")
    /\ (pc = "Joining") ~> (pc = "Done")

\* the orchestrator waits in change_event_tx.send on the full channel, holding
\* the settings write lock, while the processor waits for the batch mutex that
\* the batcher holds
C36_Witness ==
    /\ pc = "SendEvent"
    /\ settings_write_locked
    /\ Len(change_event_rx) = ChanCap
    /\ tx_pending.events # <<>>
    /\ proc_pc = "lock_batch"
    /\ batcher = "indexing"

----------------------------------------------------------------------------
\* the line whose first part was taken has since been returned by read_line and
\* passed to process_message
PartlyReadLinePassed ==
    /\ read_buf.some
    /\ last_pm.n = read_buf.n + 1
    /\ last_pm.child = read_buf.child

\* C37: a line of which read_line had taken only a part when a reload signal, an
\* expired deadline with on_timeout() = false or another select branch completed
\* is passed to process_message unmodified once its rest has arrived.
C37_LineIntegrity ==
    PartlyReadLinePassed => last_pm.line = read_buf.line

\* a deadline expired (on_timeout() = false) while a frame line was partly read;
\* process_message then got only the rest of the line and refused it
C37_LineTruncated ==
    /\ PartlyReadLinePassed
    /\ read_buf.line = Line("lpdu", TRUE, 0, <<>>, TRUE)
    /\ read_buf.reloads = reload_signal
    /\ expired > read_buf.expired
    /\ last_pm.line = rest_of(read_buf.line)
    /\ last_pm.result = "BadJSON"

----------------------------------------------------------------------------
\* the failed-start wait with a session still to be spawned
WaitsToRetry == pc = "BackoffWait" /\ spawned < MaxSessions

\* next_session_band holds a value that validate_next_session_band accepts
OverrideAccepted ==
    /\ IsU64(props[PROP_NEXT_SESSION_BAND])
    /\ validate_next_session_band(props[PROP_NEXT_SESSION_BAND])

\* C38: for every next_session_band the validator accepts (0 or 2000..21997) and
\* every frequency pool, if the decoder can be spawned the orchestrator reaches
\* Running again: start_session does not fail on every retry of the backoff loop.
C38_OverrideCannotWedge ==
    (WaitsToRetry /\ OverrideAccepted) ~> (pc = "Running")

\* a retry after a failed start has failed again, on an accepted override that
\* no frequency of the pool reaches
C38_RetryFailedAgain ==
    /\ WaitsToRetry
    /\ OverrideAccepted
    /\ http_resp.status = 200
    /\ last_start.reason = "ProcessStartError"
    /\ last_start.status = "err"
    /\ last_start.err = "NoBand"
    /\ last_start.prop = props[PROP_NEXT_SESSION_BAND]
    /\ last_start.all_freqs # <<>>

----------------------------------------------------------------------------
\* the signals that end_session_signal.recv() has returned so far
SignalsConsumed == Len(signal_sent) - Len(end_session_signal)

\* the last session end was the end_session_signal arm of select!
EndedBySignal == last_end.cause = "EndSession" /\ SignalsConsumed >= 1

\* C39: an end-session signal ends only the session it was meant for: a signal
\* sent while the orchestrator is in Starting, BackoffWait or Intermission, or
\* a second signal sent before the first is consumed, never terminates a
\* session that started after the signal was sent.
C39_SignalEndsItsSession ==
    EndedBySignal => signal_sent[SignalsConsumed].spawned >= last_end.child

\* a DELETE answered during the intermission has ended the session that was
\* spawned after it
C39_StaleSignalEndsNextSession ==
    /\ EndedBySignal
    /\ signal_sent[SignalsConsumed].pc = "Intermission"
    /\ signal_sent[SignalsConsumed].spawned < last_end.child
    /\ last_end.reason = "UserAPIControl"

----------------------------------------------------------------------------
\* the frames of a queue, as a set
FramesOf(q) == {q[i] : i \in DOMAIN q}

\* the frames that the processor has taken from the channel and handed to
\* write_all, StateDB::update or the ES batch
HandedToSink == FramesOf(dequeued)

\* C40: no frame is lost at shutdown: every CFF that the orchestrator sent into
\* the fan-out channel before the cancel token fired has been dequeued by the
\* processor and handed to its sink when the processor task exits.
C40_NoFrameLostAtShutdown ==
    proc_pc = "done" => FramesOf(cff_rx) \subseteq HandedToSink

\* the processor was in its loop, took the cancel arm and exited with a frame
\* still in the channel; the orchestrator has joined it and returned
C40_FrameLeftInChannel ==
    /\ proc_pc = "done"
    /\ pc = "Done"
    /\ cancel_token
    /\ ~swarm_url
    /\ dequeued # <<>>
    /\ \E frame \in FramesOf(cff_rx) : frame \notin HandedToSink

====
